---- MODULE Spec2Model ----
(***************************************************************************)
(* Serving-support layer of harvest-log: the bounded TTL cache             *)
(* (backend/app/cache.py) and the sliding-window rate limiter              *)
(* (backend/app/middleware.py).                                            *)
(*                                                                         *)
(* Python values are encoded as follows.  Optional[X] is a sequence of     *)
(* length at most one: <<>> is None and <<x>> is x.  The dict _cache is a  *)
(* sequence of entries in insertion order (the order dict iteration        *)
(* follows), each entry carrying its key.  Timestamps are integers         *)
(* (seconds); datetime.now() is the variable now.                          *)
(***************************************************************************)
EXTENDS Integers, Sequences, FiniteSets, TLC

(***************************************************************************)
(* Bounds of the model.                                                    *)
(***************************************************************************)
\* InMemoryCache(max_size=...): capacity of the modelled cache instance.
MaxSize == 2
\* InMemoryCache(default_ttl=...): default TTL of the modelled instance.
DefaultTtl == 1
\* The cache clock runs from 0 to MaxTime.
MaxTime == 2
\* An entry is read at most MaxAccess times (caps access_count).
MaxAccess == 1

\* datetime.max, the initial lru_time of the eviction scan.
DatetimeMax == 9999

\* Python's None as a returned or stored value.
PyNone == "None"
\* Cache keys; the empty string is a str like any other.
Keys == {"", "a", "b"}
\* Cached values.
Values == {"v1", "v2"}
\* The concurrent callers of the cache.
Procs == {"p1", "p2"}
\* The ttl argument of set: None (omitted), 0, positive, negative.
TtlArgs == {<<>>, <<0>>, <<1>>, <<2>>, <<-1>>}

VARIABLES
    now,      \* the clock read by datetime.now()
    cache,    \* InMemoryCache._cache: entries in insertion order
    last,     \* observation of the last completed cache operation
    stored,   \* per key in the dict: the call of set that stored its entry
    locked,   \* InMemoryCache._lock: whether the lock is held
    waiters,  \* InMemoryCache._lock: the callers waiting for it, first come first
    pc,       \* per caller: where it is in its operation
    call,     \* per caller: the operation it called and its arguments
    loc,      \* per caller: its local variables
    scache,   \* the dict had the operations run one at a time, in lock order
    sret,     \* per caller: what its operation returns in that serial order
    agree,    \* every operation so far returned what it returns in that order
    clients,  \* RateLimitMiddleware.clients: per client ip, its two windows
    handling, \* per client ip and path: the requests inside call_next
    req,      \* observation of the last request dispatch received
    resp,     \* observation of the last response dispatch returned
    admitted, \* per client ip: when its requests were admitted
    token,    \* the cursor token at hand
    origin,   \* "cursor": source awaits encoding; "encoded": token encodes
              \* source; "malformed": the token was made up
    source,   \* the cursor the token was encoded from
    decoded,  \* what PaginationCursor.decode made of the token
    api,      \* the response of the paginated listing given the token
    rows,     \* the rows of the table
    initial,  \* the rows of the table when the traversal started
    params,   \* the limit and order of the traversal
    next_cursor, \* the next_cursor of the last page, if any
    page,     \* the last PaginationResult
    seen,     \* the items of the pages so far, in the order returned
    phase,    \* "start", "more" (a next_cursor to follow), "done", "failed"
    memo,     \* the decorated function: key_prefix, ttl, and what it returns
    invoked,  \* per argument: how often the original function was invoked
    deleted,  \* the arguments cache_delete was called with since their last call
    mlast,    \* observation of the last call of the wrapper or its cache_delete
    inv,      \* observation of the last invalidation: the call and the dict before
    task,     \* the cache cleanup task: where it is, and its last purge
    holder,   \* per lock (of the cache, of the rate limiter): who holds it
    queue,    \* per lock: the coroutines waiting for it, first come first
    lpc,      \* per coroutine: "idle", "ready", "wait" (for a lock) or "in"
    job,      \* per coroutine: its call and the steps it has yet to take
    listed,   \* the list keys in the cache
    invocations, \* the calls made so far
    fetch,    \* the last paginated request at a cursor of the client's choice
    mgr       \* the background task manager, its tasks and its callers

cacheVars == <<cache, last, stored>>
concVars == <<locked, waiters, pc, call, loc, scache, sret, agree>>
rlVars == <<clients, handling, req, resp, admitted>>
codecVars == <<token, origin, source, decoded, api>>
pageVars == <<rows, initial, params, next_cursor, page, seen, phase>>
memoVars == <<memo, invoked, deleted, mlast>>
liveVars == <<holder, queue, lpc, job, listed, invocations>>
laterVars == <<codecVars, pageVars, memoVars, inv, task, liveVars, fetch, mgr>>
\* What the operations of the cache called one at a time leave alone.
notCache == <<concVars, rlVars, laterVars>>

(***************************************************************************)
(* CacheEntry and the dict operations used by InMemoryCache.               *)
(***************************************************************************)
CacheEntry(key, value, created_at, expires_at) ==
    [key |-> key, value |-> value, created_at |-> created_at,
     expires_at |-> expires_at, access_count |-> 0, last_accessed |-> <<>>]

\* key in self._cache
Has(c, k) == \E i \in 1..Len(c) : c[i].key = k

IdxOf(c, k) == CHOOSE i \in 1..Len(c) : c[i].key = k

\* self._cache[key]
Lookup(c, k) == c[IdxOf(c, k)]

\* self._cache.get(key)
DictGet(c, k) == IF Has(c, k) THEN <<Lookup(c, k)>> ELSE <<>>

\* del self._cache[key]
DictDel(c, k) == SelectSeq(c, LAMBDA e : e.key # k)

\* self._cache[key] = entry: an existing key keeps its place in the order.
DictPut(c, e) ==
    IF Has(c, e.key) THEN [c EXCEPT ![IdxOf(c, e.key)] = e] ELSE Append(c, e)

DictKeys(c) == {c[i].key : i \in 1..Len(c)}

\* entry.expires_at and <t> > entry.expires_at
IsExpired(e, t) == Len(e.expires_at) > 0 /\ t > e.expires_at[1]

(***************************************************************************)
(* InMemoryCache: each operation runs under self._lock from start to end   *)
(* and is given here as the function from the dict and the clock to the    *)
(* new dict and the returned value.                                        *)
(***************************************************************************)
\* A get that skips the expiry test and serves whatever is in the dict.
CacheGetNoExpiryTest(c, key, t) ==
    LET entry == DictGet(c, key) IN
    IF entry = <<>> THEN [cache |-> c, ret |-> PyNone]
    ELSE [cache |-> DictPut(c, [entry[1] EXCEPT
                                   !.access_count = @ + 1,
                                   !.last_accessed = <<t>>]),
          ret |-> entry[1].value]

\* InMemoryCache.get
CacheGet(c, key, t) ==
    LET entry == DictGet(c, key) IN
    IF entry = <<>> THEN [cache |-> c, ret |-> PyNone]
    ELSE IF IsExpired(entry[1], t)
         THEN [cache |-> DictDel(c, key), ret |-> PyNone]
         ELSE [cache |-> DictPut(c, [entry[1] EXCEPT
                                        !.access_count = @ + 1,
                                        !.last_accessed = <<t>>]),
               ret |-> entry[1].value]

\* entry.last_accessed or entry.created_at
AccessTime(e) ==
    IF Len(e.last_accessed) > 0 THEN e.last_accessed[1] ELSE e.created_at

\* The scan of _evict_lru: the first entry, in dict order, with the
\* smallest access time; None when no entry is older than datetime.max.
RECURSIVE LruScan(_, _, _, _)
LruScan(c, i, lru_key, lru_time) ==
    IF i > Len(c) THEN lru_key
    ELSE IF AccessTime(c[i]) < lru_time
         THEN LruScan(c, i + 1, <<c[i].key>>, AccessTime(c[i]))
         ELSE LruScan(c, i + 1, lru_key, lru_time)

\* "if lru_key:" is Python truthiness: None and the empty string are false.
KeyTruthy(lru_key) == Len(lru_key) > 0 /\ lru_key[1] # ""

\* InMemoryCache._evict_lru
EvictLru(c) ==
    IF Len(c) = 0 THEN c
    ELSE LET lru_key == LruScan(c, 1, <<>>, DatetimeMax) IN
         IF KeyTruthy(lru_key) THEN DictDel(c, lru_key[1]) ELSE c

\* ttl = ttl or self.default_ttl: None and 0 are both false.
EffectiveTtl(ttl) ==
    IF ttl = <<>> \/ ttl[1] = 0 THEN DefaultTtl ELSE ttl[1]

\* An expiry one second late.
ExpiresAtLate(t, ttl) == IF ttl > 0 THEN <<t + ttl + 1>> ELSE <<>>

\* datetime.now() + timedelta(seconds=ttl) if ttl > 0 else None
ExpiresAt(t, ttl) == IF ttl > 0 THEN <<t + ttl>> ELSE <<>>

\* len(self._cache) >= self.max_size, whether or not the key is present
MustEvictWhenFull(c, key) == Len(c) >= MaxSize

\* len(self._cache) >= self.max_size and key not in self._cache
MustEvict(c, key) == Len(c) >= MaxSize /\ ~Has(c, key)

\* InMemoryCache.set
CacheSet(c, key, value, ttlArg, t) ==
    LET ttl == EffectiveTtl(ttlArg)
        expires_at == ExpiresAt(t, ttl)
        c1 == IF MustEvict(c, key) THEN EvictLru(c) ELSE c
    IN  DictPut(c1, CacheEntry(key, value, t, expires_at))

\* A delete that reports the entry but leaves it in the dict.
CacheDeleteKeeps(c, key) == [cache |-> c, ok |-> Has(c, key)]

\* InMemoryCache.delete
CacheDelete(c, key) ==
    IF Has(c, key) THEN [cache |-> DictDel(c, key), ok |-> TRUE]
    ELSE [cache |-> c, ok |-> FALSE]

\* InMemoryCache.clear
CacheClear(c) == <<>>

\* InMemoryCache.cleanup_expired
CacheCleanupExpired(c, t) ==
    LET expired_keys == {c[i].key : i \in {j \in 1..Len(c) : IsExpired(c[j], t)}}
    IN  [cache |-> SelectSeq(c, LAMBDA e : e.key \notin expired_keys),
         n |-> Cardinality(expired_keys)]

RECURSIVE SumAccess(_, _)
SumAccess(c, i) ==
    IF i > Len(c) THEN 0 ELSE c[i].access_count + SumAccess(c, i + 1)

\* InMemoryCache.get_stats; hit_rate is the pair <<numerator, denominator>>
\* of the quotient, <<0, 1>> for 0.0.
CacheGetStats(c, t) ==
    LET total_entries == Len(c)
        total_accesses == SumAccess(c, 1)
    IN  [total_entries |-> total_entries,
         max_size |-> MaxSize,
         total_accesses |-> total_accesses,
         expired_entries |-> Cardinality({i \in 1..Len(c) : IsExpired(c[i], t)}),
         hit_rate |-> IF total_accesses = 0 THEN <<0, 1>>
                      ELSE <<total_accesses, total_entries>>]

(***************************************************************************)
(* Observation.  stored remembers, for each key in the dict, the call of   *)
(* set that stored its entry: the value and ttl arguments and the clock.   *)
(* last describes the last completed operation: its arguments, what it     *)
(* returned, and what it found: the keys in the dict (keys), those among   *)
(* them with the smallest access time (lru), the state of the entry under  *)
(* its key (was) and the call of set that stored that entry, with the time *)
(* elapsed since (prior).                                                  *)
(***************************************************************************)
NoStats == [total_entries |-> 0, max_size |-> MaxSize, total_accesses |-> 0,
            expired_entries |-> 0, hit_rate |-> <<0, 1>>]

\* The entry under key k at time t: absent, past its expires_at, or fresh.
KeyState(c, k, t) ==
    IF ~Has(c, k) THEN "absent"
    ELSE IF Len(Lookup(c, k).expires_at) > 0 /\ t > Lookup(c, k).expires_at[1]
         THEN "expired" ELSE "fresh"

\* The keys whose entry has the smallest last_accessed, or created_at if it
\* was never accessed.
LruKeys(c) ==
    LET time(e) == IF e.last_accessed = <<>> THEN e.created_at
                   ELSE e.last_accessed[1]
    IN  {c[i].key : i \in {j \in 1..Len(c) :
                             \A m \in 1..Len(c) : time(c[j]) <= time(c[m])}}

Prior(key) ==
    IF key \in DOMAIN stored
    THEN <<[value |-> stored[key].value, ttl |-> stored[key].ttl,
            age |-> now - stored[key].at]>>
    ELSE <<>>

Obs(op, key, value, ttl) ==
    [op |-> op, key |-> key, value |-> value, ttl |-> ttl,
     keys |-> DictKeys(cache), lru |-> LruKeys(cache),
     was |-> KeyState(cache, key, now), prior |-> Prior(key),
     ret |-> PyNone, ok |-> FALSE, n |-> 0, stats |-> NoStats]

\* stored restricted to the keys left in the dict c.
Remember(f, c) == [k \in DictKeys(c) |-> f[k]]

(***************************************************************************)
(* Actions of the cache.                                                   *)
(***************************************************************************)
Get(key) ==
    /\ Has(cache, key) /\ ~IsExpired(Lookup(cache, key), now)
          => Lookup(cache, key).access_count < MaxAccess
    /\ LET r == CacheGet(cache, key, now) IN
        /\ cache' = r.cache
        /\ last' = [Obs("get", key, PyNone, <<>>) EXCEPT !.ret = r.ret]
    /\ stored' = Remember(stored, cache')
    /\ UNCHANGED <<now, notCache>>

Set(key, value, ttl) ==
    /\ cache' = CacheSet(cache, key, value, ttl, now)
    /\ last' = Obs("set", key, value, ttl)
    /\ stored' = [k \in DictKeys(cache') |->
                   IF k = key THEN [value |-> value, ttl |-> ttl, at |-> now]
                   ELSE stored[k]]
    /\ UNCHANGED <<now, notCache>>

Delete(key) ==
    /\ LET r == CacheDelete(cache, key) IN
        /\ cache' = r.cache
        /\ last' = [Obs("delete", key, PyNone, <<>>) EXCEPT !.ok = r.ok]
    /\ stored' = Remember(stored, cache')
    /\ UNCHANGED <<now, notCache>>

Clear ==
    /\ cache' = CacheClear(cache)
    /\ last' = Obs("clear", "", PyNone, <<>>)
    /\ stored' = Remember(stored, cache')
    /\ UNCHANGED <<now, notCache>>

CleanupExpired ==
    /\ LET r == CacheCleanupExpired(cache, now) IN
        /\ cache' = r.cache
        /\ last' = [Obs("cleanup_expired", "", PyNone, <<>>) EXCEPT !.n = r.n]
    /\ stored' = Remember(stored, cache')
    /\ UNCHANGED <<now, notCache>>

GetStats ==
    /\ last' = [Obs("get_stats", "", PyNone, <<>>)
                  EXCEPT !.stats = CacheGetStats(cache, now)]
    /\ UNCHANGED <<now, cache, stored, notCache>>

\* Time passes between operations.
Tick ==
    /\ now < MaxTime
    /\ now' = now + 1
    /\ UNCHANGED <<cacheVars, notCache>>

\* A caller's operation and arguments, its locals and its result.
NoCall == [op |-> "none", key |-> "", value |-> PyNone, ttl |-> <<>>]
NoLocals == [t |-> 0, acc |-> 0, val |-> PyNone, keys |-> {}, n |-> 0]
Result(r, ok, n, stats) == [ret |-> r, ok |-> ok, n |-> n, stats |-> stats]
NoResult == Result(PyNone, FALSE, 0, NoStats)

(***************************************************************************)
(* RateLimitMiddleware.  A header value or an address is a sequence of     *)
(* characters.  clients is the dict of the middleware: a function from the *)
(* client ips seen so far to their two lists of timestamps.                *)
(***************************************************************************)
RequestsPerMinute == 3
BurstLimit == 2
MinuteSeconds == 60
BurstSeconds == 10
ClockStep == 5
RlMaxTime == 65
MaxInflight == 1

Unknown == <<"unknown">>
IpA == <<"a">>
IpB == <<"b">>
ClientIps == {IpA, IpB}
Paths == {"/", "/health", "/api/harvest-logs"}
HandlerStatuses == {200}
Request(xff, real, peer, path) ==
    [xff |-> xff, real |-> real, peer |-> peer, path |-> path]
\* a direct connection on each path; behind proxies: "X-Forwarded-For: a , b",
\* an empty X-Forwarded-For with X-Real-IP, X-Real-IP alone
Requests ==
    {Request(<<>>, <<>>, <<IpA>>, p) : p \in Paths}
    \cup {Request(<<<<" ", "a", " ", ",", "b">>>>, <<<<"b">>>>, <<<<"b">>>>, "/api/harvest-logs"),
          Request(<<<<>>>>, <<IpA>>, <<<<"b">>>>, "/api/harvest-logs"),
          Request(<<>>, <<IpA>>, <<>>, "/api/harvest-logs")}

\* str(n) for a natural number
Digit == <<"0", "1", "2", "3", "4", "5", "6", "7", "8", "9">>
RECURSIVE Str(_)
Str(n) == IF n < 10 THEN Digit[n + 1] ELSE Str(n \div 10) \o Digit[(n % 10) + 1]

\* s.split(",")[0]
RECURSIVE FirstField(_)
FirstField(s) ==
    IF s = <<>> \/ Head(s) = "," THEN <<>> ELSE <<Head(s)>> \o FirstField(Tail(s))

\* s.strip()
RECURSIVE Strip(_)
Strip(s) ==
    IF s = <<>> THEN s
    ELSE IF Head(s) = " " THEN Strip(Tail(s))
    ELSE IF s[Len(s)] = " " THEN Strip(SubSeq(s, 1, Len(s) - 1))
    ELSE s

\* "if header:" for headers.get(...): present and not the empty string
HeaderTruthy(h) == h # <<>> /\ h[1] # <<>>

GetClientIp(r) ==
    IF HeaderTruthy(r.xff) THEN Strip(FirstField(r.xff[1]))
    ELSE IF HeaderTruthy(r.real) THEN r.real[1]
    ELSE IF r.peer # <<>> THEN r.peer[1]
    ELSE Unknown

IsHealthCheck(path) == path = "/health"

IsExempt(path) == path \in {"/", "/health"}

NewClient == [requests |-> <<>>, burst_requests |-> <<>>]

\* the minute window pruned like the burst window
InMinuteShort(req_time, t) == req_time > t - BurstSeconds

InMinute(req_time, t) == req_time > t - MinuteSeconds

InBurst(req_time, t) == req_time > t - BurstSeconds

MinuteLimitExceeded(minute_requests) == minute_requests > RequestsPerMinute

MinuteLimitReached(minute_requests) == minute_requests >= RequestsPerMinute

BurstLimitExceeded(burst_requests) == burst_requests > BurstLimit

BurstLimitReached(burst_requests) == burst_requests >= BurstLimit

\* _is_rate_limited appending the request whether or not it is rejected
IsRateLimitedRecordsAll(cl, ip, t) ==
    LET c0 == IF ip \in DOMAIN cl THEN cl ELSE cl @@ (ip :> NewClient)
        requests == SelectSeq(c0[ip].requests, LAMBDA x : InMinute(x, t))
        burst == SelectSeq(c0[ip].burst_requests, LAMBDA x : InBurst(x, t))
        c1 == [c0 EXCEPT ![ip] = [requests |-> Append(requests, t),
                                  burst_requests |-> Append(burst, t)]]
    IN  IF MinuteLimitReached(Len(requests))
        THEN [clients |-> c1, limited |-> TRUE, limit_type |-> "per_minute"]
        ELSE IF BurstLimitReached(Len(burst))
        THEN [clients |-> c1, limited |-> TRUE, limit_type |-> "burst"]
        ELSE [clients |-> c1, limited |-> FALSE, limit_type |-> "none"]

\* _is_rate_limited keeping one pair of windows for all clients
IsRateLimitedShared(cl, ip, t) ==
    LET c0 == IF Unknown \in DOMAIN cl THEN cl ELSE cl @@ (Unknown :> NewClient)
        requests == SelectSeq(c0[Unknown].requests, LAMBDA x : InMinute(x, t))
        burst == SelectSeq(c0[Unknown].burst_requests, LAMBDA x : InBurst(x, t))
        c1 == [c0 EXCEPT ![Unknown] = [requests |-> requests, burst_requests |-> burst]]
    IN  IF MinuteLimitReached(Len(requests))
        THEN [clients |-> c1, limited |-> TRUE, limit_type |-> "per_minute"]
        ELSE IF BurstLimitReached(Len(burst))
        THEN [clients |-> c1, limited |-> TRUE, limit_type |-> "burst"]
        ELSE [clients |-> [c1 EXCEPT ![Unknown] =
                              [requests |-> Append(requests, t),
                               burst_requests |-> Append(burst, t)]],
              limited |-> FALSE, limit_type |-> "none"]

\* _is_rate_limited: the new dict and the returned flag
IsRateLimited(cl, ip, t) ==
    LET c0 == IF ip \in DOMAIN cl THEN cl ELSE cl @@ (ip :> NewClient)
        requests == SelectSeq(c0[ip].requests, LAMBDA x : InMinute(x, t))
        burst == SelectSeq(c0[ip].burst_requests, LAMBDA x : InBurst(x, t))
        c1 == [c0 EXCEPT ![ip] = [requests |-> requests, burst_requests |-> burst]]
    IN  IF MinuteLimitReached(Len(requests))
        THEN [clients |-> c1, limited |-> TRUE, limit_type |-> "per_minute"]
        ELSE IF BurstLimitReached(Len(burst))
        THEN [clients |-> c1, limited |-> TRUE, limit_type |-> "burst"]
        ELSE [clients |-> [c1 EXCEPT ![ip] =
                              [requests |-> Append(requests, t),
                               burst_requests |-> Append(burst, t)]],
              limited |-> FALSE, limit_type |-> "none"]

Response(ip, path, status, handled, retry, limit, remaining) ==
    [ip |-> ip, path |-> path, status |-> status, handled |-> handled,
     retry_after |-> retry, limit |-> limit, remaining |-> remaining]

NoResponse == Response(<<>>, "", 0, FALSE, <<>>, <<>>, <<>>)

\* the JSONResponse of a blocked request
RateLimitResponse(ip, path) ==
    Response(ip, path, 429, FALSE, <<"60">>, <<Str(RequestsPerMinute)>>, <<"0">>)

Max(a, b) == IF a >= b THEN a ELSE b

\* the handler's response as call_next returned it
HandlerResponseNoHeaders(cl, ip, path, status) ==
    Response(ip, path, status, TRUE, <<>>, <<>>, <<>>)

\* the handler's response with the headers dispatch adds to it
HandlerResponse(cl, ip, path, status) ==
    IF ~IsExempt(path) /\ ip \in DOMAIN cl
    THEN Response(ip, path, status, TRUE, <<>>, <<Str(RequestsPerMinute)>>,
                  <<Str(Max(0, RequestsPerMinute - Len(cl[ip].requests)))>>)
    ELSE Response(ip, path, status, TRUE, <<>>, <<>>, <<>>)

CallsNextAlways(path, limited) == TRUE

\* dispatch goes on to call_next unless the request is blocked
CallsNext(path, limited) == IsExempt(path) \/ ~limited

(***************************************************************************)
(* Observation.  admitted keeps, for each client ip, the times at which    *)
(* its requests were admitted during the last minute (recent) and the time *)
(* of the last one (last).  req describes the last request received since  *)
(* the clock last advanced: how many requests of its client had been       *)
(* admitted less than 60 and less than 10 seconds before it, the time      *)
(* since the last of them, whether it was blocked, whether call_next was   *)
(* invoked for it, whether clients was left as it was, and the response    *)
(* dispatch returned for it without calling call_next (reply).  resp is    *)
(* the last response returned since the clock last advanced.               *)
(***************************************************************************)
Younger(times, t, age) == Cardinality({i \in DOMAIN times : t - times[i] < age})

Idle(a, t) == IF a.last = <<>> THEN <<>> ELSE <<t - a.last[1]>>

Inflight == LET RECURSIVE Sum(_)
                Sum(S) == IF S = {} THEN 0
                          ELSE LET k == CHOOSE k \in S : TRUE
                               IN  handling[k] + Sum(S \ {k})
            IN  Sum(DOMAIN handling)

NoRequest ==
    [ip |-> <<>>, path |-> "", blocked |-> FALSE,
     invoked |-> FALSE, untouched |-> TRUE, minute |-> 0, burst |-> 0,
     idle |-> <<>>, reply |-> NoResponse]

(***************************************************************************)
(* Strings of the cursor codec.  A str is a sequence of one-character      *)
(* strings and a bytes object a sequence of integers in 0..255.            *)
(***************************************************************************)
Printable ==
    <<" ", "!", "\"", "#", "$", "%", "&", "'", "(", ")", "*", "+", ",", "-",
      ".", "/", "0", "1", "2", "3", "4", "5", "6", "7", "8", "9", ":", ";",
      "<", "=", ">", "?", "@", "A", "B", "C", "D", "E", "F", "G", "H", "I",
      "J", "K", "L", "M", "N", "O", "P", "Q", "R", "S", "T", "U", "V", "W",
      "X", "Y", "Z", "[", "\\", "]", "^", "_", "grave", "a", "b", "c", "d", "e",
      "f", "g", "h", "i", "j", "k", "l", "m", "n", "o", "p", "q", "r", "s",
      "t", "u", "v", "w", "x", "y", "z", "{", "|", "}", "~">>

Base64Alphabet ==
    <<"A", "B", "C", "D", "E", "F", "G", "H", "I", "J", "K", "L", "M", "N",
      "O", "P", "Q", "R", "S", "T", "U", "V", "W", "X", "Y", "Z", "a", "b",
      "c", "d", "e", "f", "g", "h", "i", "j", "k", "l", "m", "n", "o", "p",
      "q", "r", "s", "t", "u", "v", "w", "x", "y", "z", "0", "1", "2", "3",
      "4", "5", "6", "7", "8", "9", "+", "/">>

IndexIn(table, c) == CHOOSE i \in DOMAIN table : table[i] = c

InTable(table, c) == \E i \in DOMAIN table : table[i] = c

\* F(v), with v computed once
With(v, F(_)) == CHOOSE y \in {F(w) : w \in {v}} : TRUE

\* the sequence f with its elements computed
Tuple(f) == f \o <<>>

\* a result: the exception raised ("" if none) and the value returned
Ok(v) == [exc |-> "", val |-> v]

Raise(e) == [exc |-> e, val |-> <<>>]

\* F of the value of r unless r is a raised exception
Then(r, F(_)) == With(r, LAMBDA x : IF x.exc # "" THEN x ELSE F(x.val))

\* str.encode('utf-8'), on printable ASCII
Utf8Encode(s) ==
    With(s, LAMBDA v : Tuple([i \in DOMAIN v |-> 31 + IndexIn(Printable, v[i])]))

\* bytes.decode('utf-8'): a byte above 127 is taken to be ill-formed
Utf8Decode(b) ==
    With(b, LAMBDA v :
        IF \E i \in DOMAIN v : v[i] > 127 THEN Raise("UnicodeDecodeError")
        ELSE Ok(Tuple([i \in DOMAIN v |->
                          IF v[i] \in 32..126 THEN Printable[v[i] - 31] ELSE "ctl"])))

Sextet(n) == Base64Alphabet[n + 1]

\* the byte at position k of b, 0 past its end
ByteAt(b, k) == IF k <= Len(b) THEN b[k] ELSE 0

\* base64.b64encode: character r of quad q, "=" where the bytes have ended
B64Char(b, q, r) ==
    IF r = 0 THEN Sextet(ByteAt(b, 3 * q + 1) \div 4)
    ELSE IF r = 1
    THEN Sextet((ByteAt(b, 3 * q + 1) % 4) * 16 + ByteAt(b, 3 * q + 2) \div 16)
    ELSE IF r = 2
    THEN IF 3 * q + 2 > Len(b) THEN "="
         ELSE Sextet((ByteAt(b, 3 * q + 2) % 16) * 4 + ByteAt(b, 3 * q + 3) \div 64)
    ELSE IF 3 * q + 3 > Len(b) THEN "=" ELSE Sextet(ByteAt(b, 3 * q + 3) % 64)

B64Encode(b) ==
    With(b, LAMBDA v :
        Tuple([j \in 1..(4 * ((Len(v) + 2) \div 3)) |->
                  B64Char(v, (j - 1) \div 4, (j - 1) % 4)]))

\* byte k of the data carried by the sextets d
B64Byte(d, k) ==
    IF (k - 1) % 3 = 0
    THEN d[4 * ((k - 1) \div 3) + 1] * 4 + d[4 * ((k - 1) \div 3) + 2] \div 16
    ELSE IF (k - 1) % 3 = 1
    THEN (d[4 * ((k - 1) \div 3) + 2] % 16) * 16 + d[4 * ((k - 1) \div 3) + 3] \div 4
    ELSE (d[4 * ((k - 1) \div 3) + 3] % 4) * 64 + d[4 * ((k - 1) \div 3) + 4]

\* the bytes of n sextets: 3 for each quad, 1 or 2 for a rest of 2 or 3
ByteCount(n) == 3 * (n \div 4) + (IF n % 4 >= 2 THEN (n % 4) - 1 ELSE 0)

\* the number of data characters before position p
DataBefore(kept, p) == Cardinality({i \in 1..(p - 1) : kept[i] # "="})

\* the length of the run of "=" that ends at position p
PadRun(kept, p) ==
    Cardinality({i \in 1..p : \A j \in i..p : kept[j] = "="})

\* the padding at p completes a quad of at least 2 data characters
PadEnds(kept, p) ==
    /\ kept[p] = "="
    /\ DataBefore(kept, p) % 4 >= 2
    /\ (DataBefore(kept, p) % 4) + PadRun(kept, p) >= 4

\* the first position whose padding ends the data, 0 if there is none
PadStop(kept) ==
    With({p \in DOMAIN kept : PadEnds(kept, p)}, LAMBDA stops :
        IF stops = {} THEN 0 ELSE CHOOSE p \in stops : \A q \in stops : p <= q)

\* base64.b64decode (validate=False): characters outside the alphabet are
\* skipped; padding that completes a quad of at least 2 characters ends
\* the data; an incomplete quad at the end is binascii.Error
B64Decode(s) ==
    With(SelectSeq(s, LAMBDA c : c = "=" \/ InTable(Base64Alphabet, c)), LAMBDA kept :
    With(PadStop(kept), LAMBDA stop :
    With(SelectSeq(IF stop = 0 THEN kept ELSE SubSeq(kept, 1, stop - 1),
                   LAMBDA c : c # "="), LAMBDA data :
    With(Tuple([i \in DOMAIN data |-> IndexIn(Base64Alphabet, data[i]) - 1]), LAMBDA d :
        IF stop = 0 /\ Len(d) % 4 # 0 THEN Raise("binascii.Error")
        ELSE Ok(Tuple([k \in 1..ByteCount(Len(d)) |-> B64Byte(d, k)]))))))

(***************************************************************************)
(* JSON.  A value is [t, s]: t is "str", "num", "lit", "arr" or "obj" and  *)
(* s the characters of a string, number or literal, the elements of an     *)
(* array, or the members [k, v] of an object in the order of the text.     *)
(* Escapes in strings are not modelled: a backslash is an error.           *)
(***************************************************************************)
Digits == {"0", "1", "2", "3", "4", "5", "6", "7", "8", "9"}

JsonStr(s) == [t |-> "str", s |-> s]

Parsed(v, next) == [ok |-> TRUE, val |-> v, next |-> next]

NotParsed == [ok |-> FALSE, val |-> <<>>, next |-> 0]

\* the first position from i on that holds no blank
SkipWs(s, i) ==
    With({j \in i..Len(s) : s[j] # " "}, LAMBDA ends :
        IF ends = {} THEN Len(s) + 1 ELSE CHOOSE j \in ends : \A k \in ends : j <= k)

At(s, i, c) == i <= Len(s) /\ s[i] = c

\* the characters from i up to the closing quote
ScanString(s, i) ==
    With({j \in i..Len(s) : s[j] \in {"\"", "\\", "ctl"}}, LAMBDA ends :
        IF ends = {} THEN NotParsed
        ELSE With(CHOOSE j \in ends : \A k \in ends : j <= k, LAMBDA j :
                 IF s[j] # "\"" THEN NotParsed
                 ELSE Parsed(JsonStr(SubSeq(s, i, j - 1)), j + 1)))

\* the first position from i on that holds no digit
ScanDigits(s, i) ==
    With({j \in i..Len(s) : s[j] \notin Digits}, LAMBDA ends :
        IF ends = {} THEN Len(s) + 1 ELSE CHOOSE j \in ends : \A k \in ends : j <= k)

ScanNumber(s, i) ==
    With(IF At(s, i, "-") THEN i + 1 ELSE i, LAMBDA j :
    With(ScanDigits(s, j), LAMBDA k :
        IF k = j \/ (k > j + 1 /\ s[j] = "0") THEN NotParsed
        ELSE Parsed([t |-> "num", s |-> SubSeq(s, i, k - 1)], k)))

ScanLiteral(s, i, word) ==
    IF i + Len(word) - 1 <= Len(s) /\ SubSeq(s, i, i + Len(word) - 1) = word
    THEN Parsed([t |-> "lit", s |-> word], i + Len(word))
    ELSE NotParsed

RECURSIVE ParseValue(_, _)
RECURSIVE ParseElems(_, _, _)
RECURSIVE ParseMembers(_, _, _)
ParseValue(s, i) ==
    With(SkipWs(s, i), LAMBDA j :
        IF j > Len(s) THEN NotParsed
        ELSE IF s[j] = "\"" THEN ScanString(s, j + 1)
        ELSE IF s[j] = "["
        THEN With(SkipWs(s, j + 1), LAMBDA k :
                 IF At(s, k, "]") THEN Parsed([t |-> "arr", s |-> <<>>], k + 1)
                 ELSE ParseElems(s, k, <<>>))
        ELSE IF s[j] = "{"
        THEN With(SkipWs(s, j + 1), LAMBDA k :
                 IF At(s, k, "}") THEN Parsed([t |-> "obj", s |-> <<>>], k + 1)
                 ELSE ParseMembers(s, k, <<>>))
        ELSE IF s[j] = "n" THEN ScanLiteral(s, j, <<"n", "u", "l", "l">>)
        ELSE IF s[j] = "t" THEN ScanLiteral(s, j, <<"t", "r", "u", "e">>)
        ELSE IF s[j] = "f" THEN ScanLiteral(s, j, <<"f", "a", "l", "s", "e">>)
        ELSE ScanNumber(s, j))

\* the elements of an array from i on, after the elements acc
ParseElems(s, i, acc) ==
    With(ParseValue(s, i), LAMBDA v :
        IF ~v.ok THEN NotParsed
        ELSE With(SkipWs(s, v.next), LAMBDA k :
                 IF At(s, k, ",") THEN ParseElems(s, k + 1, Append(acc, v.val))
                 ELSE IF At(s, k, "]")
                 THEN Parsed([t |-> "arr", s |-> Append(acc, v.val)], k + 1)
                 ELSE NotParsed))

\* the members of an object from i on, after the members acc
ParseMembers(s, i, acc) ==
    With(SkipWs(s, i), LAMBDA j :
    With(IF At(s, j, "\"") THEN ScanString(s, j + 1) ELSE NotParsed, LAMBDA key :
        IF ~key.ok THEN NotParsed
        ELSE With(SkipWs(s, key.next), LAMBDA c :
        With(IF At(s, c, ":") THEN ParseValue(s, c + 1) ELSE NotParsed, LAMBDA v :
            IF ~v.ok THEN NotParsed
            ELSE With(SkipWs(s, v.next), LAMBDA k :
                     IF At(s, k, ",")
                     THEN ParseMembers(s, k + 1,
                                       Append(acc, [k |-> key.val.s, v |-> v.val]))
                     ELSE IF At(s, k, "}")
                     THEN Parsed([t |-> "obj",
                                  s |-> Append(acc, [k |-> key.val.s, v |-> v.val])],
                                 k + 1)
                     ELSE NotParsed)))))

\* json.loads
JsonLoads(s) ==
    With(s, LAMBDA text :
    With(ParseValue(text, 1), LAMBDA v :
        IF v.ok /\ SkipWs(text, v.next) > Len(text) THEN Ok(v.val)
        ELSE Raise("JSONDecodeError")))

\* json.dumps(d, sort_keys=True) of a dict of strings given in key order
RECURSIVE DumpMembers(_)
DumpMembers(m) ==
    IF m = <<>> THEN <<>>
    ELSE <<"\"">> \o m[1].k \o <<"\"", ":", " ", "\"">> \o m[1].v \o <<"\"">>
         \o (IF Len(m) > 1 THEN <<",", " ">> ELSE <<>>) \o DumpMembers(Tail(m))

JsonDumps(m) == With(m, LAMBDA d : <<"{">> \o DumpMembers(d) \o <<"}">>)

\* d[key] on a loaded value: the last member of that name of an object
Subscript(d, key) ==
    IF d.t # "obj" THEN Raise("TypeError")
    ELSE With({i \in DOMAIN d.s : d.s[i].k = key}, LAMBDA hits :
             IF hits = {} THEN Raise("KeyError")
             ELSE Ok(d.s[CHOOSE i \in hits : \A j \in hits : j <= i].v))

(***************************************************************************)
(* datetime and UUID.  A datetime of the model is a day of January 2024, a *)
(* second of its first minute, a microsecond, and whether it carries the   *)
(* offset +00:00.  A UUID is its 32 hexadecimal digits in lower case.      *)
(***************************************************************************)
Datetime(day, second, microsecond, utc) ==
    [day |-> day, second |-> second, microsecond |-> microsecond, utc |-> utc]

DigitChar(n) == Digit[n + 1]

DigitVal(c) == IndexIn(Digit, c) - 1

RECURSIVE Zfill(_, _)
Zfill(n, width) ==
    IF width = 0 THEN <<>> ELSE Append(Zfill(n \div 10, width - 1), DigitChar(n % 10))

RECURSIVE ToInt(_)
ToInt(s) == IF s = <<>> THEN 0 ELSE ToInt(SubSeq(s, 1, Len(s) - 1)) * 10 + DigitVal(s[Len(s)])

AllDigits(s) == \A i \in DOMAIN s : s[i] \in Digits

DatePrefix == <<"2", "0", "2", "4", "-", "0", "1", "-">>

TimePrefix == <<"0", "0", ":", "0", "0", ":">>

UtcOffset == <<"+", "0", "0", ":", "0", "0">>

IsoFormatSeconds(dt) ==
    DatePrefix \o Zfill(dt.day, 2) \o <<"T">> \o TimePrefix \o Zfill(dt.second, 2)
    \o (IF dt.utc THEN UtcOffset ELSE <<>>)

\* datetime.isoformat()
IsoFormat(dt) ==
    DatePrefix \o Zfill(dt.day, 2) \o <<"T">> \o TimePrefix \o Zfill(dt.second, 2)
    \o (IF dt.microsecond # 0 THEN <<".">> \o Zfill(dt.microsecond, 6) ELSE <<>>)
    \o (IF dt.utc THEN UtcOffset ELSE <<>>)

IsoDateOk(s) ==
    /\ Len(s) >= 10
    /\ SubSeq(s, 1, 8) = DatePrefix
    /\ AllDigits(SubSeq(s, 9, 10))
    /\ ToInt(SubSeq(s, 9, 10)) \in 1..31

IsoTimeOk(s) ==
    /\ Len(s) >= 19
    /\ s[11] # "ctl"
    /\ SubSeq(s, 12, 17) = TimePrefix
    /\ AllDigits(SubSeq(s, 18, 19))
    /\ ToInt(SubSeq(s, 18, 19)) \in 0..59

IsoFraction(s) == Len(s) >= 26 /\ s[20] = "." /\ AllDigits(SubSeq(s, 21, 26))

IsoRest(s) == IF IsoFraction(s) THEN SubSeq(s, 27, Len(s)) ELSE SubSeq(s, 20, Len(s))

\* datetime.fromisoformat(): a date, then optionally any separator and a
\* time with optional 6-digit fraction and optional offset
FromIsoFormat(v) ==
    IF v.t # "str" THEN Raise("TypeError")
    ELSE IF ~IsoDateOk(v.s) THEN Raise("ValueError")
    ELSE IF Len(v.s) = 10 THEN Ok(Datetime(ToInt(SubSeq(v.s, 9, 10)), 0, 0, FALSE))
    ELSE IF ~IsoTimeOk(v.s) \/ IsoRest(v.s) \notin {<<>>, UtcOffset}
    THEN Raise("ValueError")
    ELSE Ok(Datetime(ToInt(SubSeq(v.s, 9, 10)), ToInt(SubSeq(v.s, 18, 19)),
                     IF IsoFraction(v.s) THEN ToInt(SubSeq(v.s, 21, 26)) ELSE 0,
                     IsoRest(v.s) = UtcOffset))

HexLower == <<"0", "1", "2", "3", "4", "5", "6", "7", "8", "9",
              "a", "b", "c", "d", "e", "f">>

HexUpper == <<"0", "1", "2", "3", "4", "5", "6", "7", "8", "9",
              "A", "B", "C", "D", "E", "F">>

IsHex(c) == InTable(HexLower, c) \/ InTable(HexUpper, c)

Lower(c) == IF InTable(HexUpper, c) THEN HexLower[IndexIn(HexUpper, c)] ELSE c

\* str(uuid): 8-4-4-4-12
UuidStr(u) ==
    SubSeq(u, 1, 8) \o <<"-">> \o SubSeq(u, 9, 12) \o <<"-">> \o SubSeq(u, 13, 16)
    \o <<"-">> \o SubSeq(u, 17, 20) \o <<"-">> \o SubSeq(u, 21, 32)

\* s.strip('{}')
RECURSIVE StripBraces(_)
StripBraces(s) ==
    IF s = <<>> THEN s
    ELSE IF Head(s) \in {"{", "}"} THEN StripBraces(Tail(s))
    ELSE IF s[Len(s)] \in {"{", "}"} THEN StripBraces(SubSeq(s, 1, Len(s) - 1))
    ELSE s

\* UUID(hex): braces stripped, hyphens removed, then 32 hexadecimal digits
\* (the prefixes urn: and uuid: are not modelled)
UuidParse(v) ==
    IF v.t = "lit" /\ v.s = <<"n", "u", "l", "l">> THEN Raise("TypeError")
    ELSE IF v.t # "str" THEN Raise("AttributeError")
    ELSE With(SelectSeq(StripBraces(v.s), LAMBDA c : c # "-"), LAMBDA hex :
             IF Len(hex) # 32 \/ \E i \in DOMAIN hex : ~IsHex(hex[i])
             THEN Raise("ValueError")
             ELSE Ok(Tuple([i \in DOMAIN hex |-> Lower(hex[i])])))

(***************************************************************************)
(* PaginationCursor.                                                       *)
(***************************************************************************)
PaginationCursor(created_at, id) == [created_at |-> created_at, id |-> id]

KeyCreatedAt == <<"c", "r", "e", "a", "t", "e", "d", "_", "a", "t">>

KeyId == <<"i", "d">>

Encode(c) ==
    B64Encode(Utf8Encode(JsonDumps(
        <<[k |-> KeyCreatedAt, v |-> IsoFormat(c.created_at)],
          [k |-> KeyId, v |-> UuidStr(c.id)]>>)))

\* the exceptions "except (ValueError, KeyError, json.JSONDecodeError)" catches
Caught(exc) ==
    exc \in {"ValueError", "binascii.Error", "UnicodeDecodeError",
             "JSONDecodeError", "KeyError"}

\* the body of the try block of decode
DecodeBody(cursor_str) ==
    Then(B64Decode(cursor_str), LAMBDA cursor_bytes :
    Then(Utf8Decode(cursor_bytes), LAMBDA cursor_json :
    Then(JsonLoads(cursor_json), LAMBDA cursor_data :
    Then(Then(Subscript(cursor_data, KeyCreatedAt), FromIsoFormat), LAMBDA created_at :
    Then(Then(Subscript(cursor_data, KeyId), UuidParse), LAMBDA id :
        Ok(PaginationCursor(created_at, id)))))))

Decode(cursor_str) ==
    With(DecodeBody(cursor_str), LAMBDA r :
        IF Caught(r.exc) THEN Raise("ValidationException") ELSE r)

\* PaginationParams.get_cursor_obj: cursor is None (<<>>) or a str (<<s>>)
GetCursorObj(cursor) ==
    IF cursor = <<>> \/ cursor[1] = <<>> THEN Ok(<<>>)
    ELSE Then(Decode(cursor[1]), LAMBDA c : Ok(<<c>>))

(***************************************************************************)
(* Cursors and tokens of the model.                                        *)
(***************************************************************************)
Uuid(hi, lo) ==
    Tuple([i \in 1..32 |-> IF i = 32 THEN HexLower[lo + 1] ELSE HexLower[hi + 1]])

Datetimes ==
    {Datetime(d, s, u, z) : d \in {1, 12}, s \in {0, 59},
                            u \in {0, 1500, 999999}, z \in BOOLEAN}

Cursors == {PaginationCursor(t, u) : t \in Datetimes,
                                     u \in {Uuid(0, 1), Uuid(0, 10), Uuid(15, 3)}}

Quote(s) == <<"\"">> \o s \o <<"\"">>

Pair(k, raw) == Quote(k) \o <<":", " ">> \o raw

Obj1(p) == <<"{">> \o p \o <<"}">>

Obj2(p, q) == <<"{">> \o p \o <<",", " ">> \o q \o <<"}">>

Token(text) == B64Encode(Utf8Encode(text))

GoodTs == Quote(IsoFormat(Datetime(1, 7, 0, TRUE)))

GoodId == Quote(UuidStr(Uuid(0, 10)))

JsonNull == <<"n", "u", "l", "l">>

\* tokens that are not base64
NotBase64 == {<<"W", "1", "0">>, <<"!", "!">>, <<"W">>}

\* base64 of bytes that are not UTF-8, and of text that is not JSON
NotJson == {<<"/", "/", "/", "/">>, Token(<<"{", "o", "o", "p", "s">>),
            Token(<<"[", "1", ",", "]">>)}

\* base64 of JSON that is not an object
NotObject == {Token(<<"[", "]">>), Token(<<"5">>), Token(JsonNull), Token(GoodTs)}

\* base64 of an object without created_at or without id
MissingField == {Token(<<"{", "}">>), Token(Obj1(Pair(KeyId, GoodId))),
                 Token(Obj1(Pair(KeyCreatedAt, GoodTs)))}

\* base64 of an object whose created_at or id is not well-formed
BadField ==
    {Token(Obj2(Pair(KeyCreatedAt, Quote(<<"s", "o", "o", "n">>)), Pair(KeyId, GoodId))),
     Token(Obj2(Pair(KeyCreatedAt, GoodTs), Pair(KeyId, Quote(<<"x", "y", "z">>)))),
     Token(Obj2(Pair(KeyCreatedAt, <<"5">>), Pair(KeyId, GoodId))),
     Token(Obj2(Pair(KeyCreatedAt, GoodTs), Pair(KeyId, <<"5">>))),
     Token(Obj2(Pair(KeyCreatedAt, GoodTs), Pair(KeyId, JsonNull)))}

MalformedTokens == NotBase64 \cup NotJson \cup NotObject \cup MissingField \cup BadField

Pending == Raise("pending")

(***************************************************************************)
(* The paginated listing of harvest logs and the responses of the          *)
(* exception handlers.                                                     *)
(***************************************************************************)
ApiResponse(status_code, error_code) ==
    [status_code |-> status_code, error_code |-> error_code]

NoApi == ApiResponse(0, "")

Success == ApiResponse(200, "")

ValidationException == ApiResponse(422, "VALIDATION_ERROR")

NotFoundError == ApiResponse(404, "RESOURCE_NOT_FOUND")

DatabaseError == ApiResponse(500, "DATABASE_ERROR")

\* get_harvest_logs_paginated: the query is built from the cursor and
\* executed; "except Exception" turns whatever is raised into DatabaseError
GetHarvestLogsPaginated(cursor, db_ok) ==
    With(Then(GetCursorObj(cursor),
              LAMBDA cursor_obj : IF db_ok THEN Ok(cursor_obj) ELSE Raise("APIError")),
         LAMBDA r : IF r.exc # "" THEN DatabaseError ELSE Success)

(***************************************************************************)
(* Cursor pagination over a table ordered by (created_at, id).             *)
(***************************************************************************)
MaxLimit == 2
MaxInserts == 2

PaginationParams(limit, cursor, order) ==
    [limit |-> limit, cursor |-> cursor, order |-> order]

\* a row of the table: created_at a timestamp, id a uuid
Row(created_at, id) == [created_at |-> created_at, id |-> id]

\* rows that share a timestamp, differ in microseconds only, or in the day
TableRows ==
    {Row(Datetime(1, 7, 0, TRUE), Uuid(0, 2)),
     Row(Datetime(1, 7, 0, TRUE), Uuid(0, 10)),
     Row(Datetime(1, 7, 1500, TRUE), Uuid(0, 1)),
     Row(Datetime(1, 7, 1500, TRUE), Uuid(15, 3)),
     Row(Datetime(12, 0, 0, TRUE), Uuid(1, 0))}

\* a row as the query returns it: created_at and id as text
Item(row) == [created_at |-> IsoFormat(row.created_at), id |-> UuidStr(row.id)]

\* the database's order of timestamps
TimestampLess(a, b) ==
    \/ a.day < b.day
    \/ a.day = b.day /\ a.second < b.second
    \/ a.day = b.day /\ a.second = b.second /\ a.microsecond < b.microsecond

\* the database's order of uuids
UuidLess(a, b) ==
    \E i \in 1..32 : /\ \A j \in 1..(i - 1) : a[j] = b[j]
                     /\ IndexIn(HexLower, a[i]) < IndexIn(HexLower, b[i])

\* row a sorts before row b under order("created_at").order("id")
RowBefore(a, b, desc) ==
    IF desc
    THEN \/ TimestampLess(b.created_at, a.created_at)
         \/ a.created_at = b.created_at /\ UuidLess(b.id, a.id)
    ELSE \/ TimestampLess(a.created_at, b.created_at)
         \/ a.created_at = b.created_at /\ UuidLess(a.id, b.id)

\* the or_ filter of the cursor: operator and values as written into it
CursorFilter(cursor_obj, order) ==
    [op |-> IF order = "desc" THEN "lt" ELSE "gt",
     created_at |-> IsoFormat(cursor_obj.created_at),
     id |-> UuidStr(cursor_obj.id)]

\* the filter with its values read by the database
ReadFilter(f) ==
    [op |-> f.op,
     created_at |-> FromIsoFormat(JsonStr(f.created_at)).val,
     id |-> UuidParse(JsonStr(f.id)).val]

MatchesNoTieBreak(row, f) ==
    IF f.op = "lt"
    THEN TimestampLess(row.created_at, f.created_at)
    ELSE TimestampLess(f.created_at, row.created_at)

MatchesInclusive(row, f) ==
    IF f.op = "lt"
    THEN \/ TimestampLess(row.created_at, f.created_at)
         \/ row.created_at = f.created_at /\ ~UuidLess(f.id, row.id)
    ELSE \/ TimestampLess(f.created_at, row.created_at)
         \/ row.created_at = f.created_at /\ ~UuidLess(row.id, f.id)

\* created_at.lt.X,and(created_at.eq.X,id.lt.ID), or the same with gt
Matches(row, f) ==
    IF f.op = "lt"
    THEN \/ TimestampLess(row.created_at, f.created_at)
         \/ row.created_at = f.created_at /\ UuidLess(row.id, f.id)
    ELSE \/ TimestampLess(f.created_at, row.created_at)
         \/ row.created_at = f.created_at /\ UuidLess(f.id, row.id)

(***************************************************************************)
(* Additional filters.  additional_filters is a dict: a sequence of        *)
(* <<field, value>> pairs; a value is <<>> for None, or <<v>> for a str or  *)
(* a datetime v.  The                                                      *)
(* columns a filter can name are event_type, notes and event_date; a row   *)
(* has them by its id, and the text of a column is over the letters a-f.   *)
(***************************************************************************)
SearchSuffix == <<"_", "s", "e", "a", "r", "c", "h">>
FromSuffix == <<"_", "f", "r", "o", "m">>
ToSuffix == <<"_", "t", "o">>
EventTypeColumn == <<"e", "v", "e", "n", "t", "_", "t", "y", "p", "e">>
NotesColumn == <<"n", "o", "t", "e", "s">>
EventDateColumn == <<"e", "v", "e", "n", "t", "_", "d", "a", "t", "e">>
PlantIdColumn == <<"p", "l", "a", "n", "t", "_", "i", "d">>

\* field.endswith(suffix)
EndsWith(s, suffix) ==
    Len(s) >= Len(suffix) /\ SubSeq(s, Len(s) - Len(suffix) + 1, Len(s)) = suffix

\* field.replace(old, ""): every occurrence, from the left
RECURSIVE Replace(_, _)
Replace(s, old) ==
    IF Len(s) < Len(old) THEN s
    ELSE IF SubSeq(s, 1, Len(old)) = old
    THEN Replace(SubSeq(s, Len(old) + 1, Len(s)), old)
    ELSE <<s[1]>> \o Replace(Tail(s), old)

\* the value of a column in a row; <<>> is NULL
ColumnOf(row, column) ==
    IF column = EventTypeColumn
    THEN <<IF row.id[32] \in {"0", "1", "2"} THEN <<"f", "e", "e", "d">>
           ELSE <<"b", "e", "d">>>>
    ELSE IF column = NotesColumn
    THEN IF row.id[32] = "0" THEN <<>>
         ELSE IF row.id[32] = "1" THEN <<<<"f", "e", "d">>>>
         ELSE IF row.id[32] = "2" THEN <<<<"B", "a", "d">>>>
         ELSE IF row.id[32] = "3" THEN <<<<"D", "e", "a", "f">>>>
         ELSE <<<<"c", "a", "b">>>>
    ELSE IF column = EventDateColumn
    THEN <<Datetime(row.created_at.day, 0, 0, TRUE)>>
    ELSE <<>>

\* one condition of the query: eq, gte, lte or ilike on a column
Condition(op, column, value) == [op |-> op, column |-> column, value |-> value]

\* the branch of the loop over additional_filters for one field
FilterCondition(field, value) ==
    IF EndsWith(field, SearchSuffix)
    THEN Condition("ilike", Replace(field, SearchSuffix), <<"%">> \o value \o <<"%">>)
    ELSE IF EndsWith(field, FromSuffix)
    THEN Condition("gte", Replace(field, FromSuffix), IsoFormat(value))
    ELSE IF EndsWith(field, ToSuffix)
    THEN Condition("lte", Replace(field, ToSuffix), IsoFormat(value))
    ELSE Condition("eq", field, value)

\* the loop over additional_filters: None values are skipped
RECURSIVE ApplyFilters(_)
ApplyFilters(additional_filters) ==
    IF additional_filters = <<>> THEN <<>>
    ELSE (IF Head(additional_filters)[2] # <<>>
          THEN <<FilterCondition(Head(additional_filters)[1],
                                 Head(additional_filters)[2][1])>>
          ELSE <<>>) \o ApplyFilters(Tail(additional_filters))

\* text contains sub
Contains(text, sub) ==
    \E i \in 0..(Len(text) - Len(sub)) : SubSeq(text, i + 1, i + Len(sub)) = sub

\* lower case of a text over a-f
Fold(text) == Tuple([i \in DOMAIN text |-> Lower(text[i])])

\* the database's reading of a condition on a row; a NULL column fails it
Holds(row, c) ==
    With(ColumnOf(row, c.column), LAMBDA col :
        /\ col # <<>>
        /\ IF c.op = "ilike"
           THEN Contains(Fold(col[1]), Fold(SubSeq(c.value, 2, Len(c.value) - 1)))
           ELSE IF c.op = "gte"
           THEN ~TimestampLess(col[1], FromIsoFormat(JsonStr(c.value)).val)
           ELSE IF c.op = "lte"
           THEN ~TimestampLess(FromIsoFormat(JsonStr(c.value)).val, col[1])
           ELSE col[1] = c.value)

\* the rows of the table that pass every condition
Filtered(table, conditions) ==
    {r \in table : \A i \in DOMAIN conditions : Holds(r, conditions[i])}

\* build_events_query: the query and the cursor
BuildEventsQueryWith(p, additional_filters) ==
    Then(GetCursorObj(p.cursor), LAMBDA cursor_obj :
        Ok([where |-> ApplyFilters(additional_filters),
            filter |-> IF cursor_obj # <<>>
                       THEN <<CursorFilter(cursor_obj[1], p.order)>> ELSE <<>>,
            desc |-> p.order = "desc",
            limit |-> p.limit + 1,
            cursor_obj |-> cursor_obj]))

\* build_events_query without additional filters
BuildEventsQuery(p) == BuildEventsQueryWith(p, <<>>)

\* the rows of set S in the order of the query
Sorted(S, desc) ==
    Tuple([k \in 1..Cardinality(S) |->
              CHOOSE r \in S : Cardinality({q \in S : RowBefore(q, r, desc)}) = k - 1])

\* query.execute(): filter, order, limit
Execute(table, query) ==
    With(IF query.filter = <<>> THEN Filtered(table, query.where)
         ELSE With(ReadFilter(query.filter[1]), LAMBDA f :
                  {r \in Filtered(table, query.where) : Matches(r, f)}),
         LAMBDA hits :
    With(Sorted(hits, query.desc), LAMBDA sorted :
        Tuple([k \in 1..(IF Len(sorted) < query.limit THEN Len(sorted) ELSE query.limit)
                  |-> Item(sorted[k])])))

\* the cursor of an item of the result
CursorOf(item) ==
    PaginationCursor(FromIsoFormat(JsonStr(item.created_at)).val,
                     UuidParse(JsonStr(item.id)).val)

PaginationResult(items, has_next, has_previous, next, previous) ==
    [items |-> items, has_next |-> has_next, has_previous |-> has_previous,
     next_cursor |-> next, previous_cursor |-> previous]

NoPage == PaginationResult(<<>>, FALSE, FALSE, <<>>, <<>>)

\* result assembly taking next_cursor from the last row returned, the
\* extra one included
ProcessEventsResultExtraRow(data, p, current_cursor) ==
    With(SubSeq(data, 1, IF Len(data) < p.limit THEN Len(data) ELSE p.limit),
         LAMBDA items :
        PaginationResult(
            items,
            Len(data) > p.limit,
            current_cursor # <<>>,
            IF Len(data) > p.limit /\ items # <<>>
            THEN <<Encode(CursorOf(data[Len(data)]))>> ELSE <<>>,
            IF current_cursor # <<>> /\ items # <<>>
            THEN <<Encode(CursorOf(items[1]))>> ELSE <<>>))

\* result assembly that never reports a previous page
ProcessEventsResultForwardOnly(data, p, current_cursor) ==
    With(SubSeq(data, 1, IF Len(data) < p.limit THEN Len(data) ELSE p.limit),
         LAMBDA items :
        PaginationResult(
            items,
            Len(data) > p.limit,
            FALSE,
            IF Len(data) > p.limit /\ items # <<>>
            THEN <<Encode(CursorOf(items[Len(items)]))>> ELSE <<>>,
            <<>>))

\* process_events_result
ProcessEventsResult(data, p, current_cursor) ==
    With(SubSeq(data, 1, IF Len(data) < p.limit THEN Len(data) ELSE p.limit),
         LAMBDA items :
        PaginationResult(
            items,
            Len(data) > p.limit,
            current_cursor # <<>>,
            IF Len(data) > p.limit /\ items # <<>>
            THEN <<Encode(CursorOf(items[Len(items)]))>> ELSE <<>>,
            IF current_cursor # <<>> /\ items # <<>>
            THEN <<Encode(CursorOf(items[1]))>> ELSE <<>>))

\* one paginated request: build the query, execute it, process the result
ListEventsWith(table, p, additional_filters) ==
    Then(BuildEventsQueryWith(p, additional_filters), LAMBDA q :
        With(Execute(table, q), LAMBDA data :
            Ok(ProcessEventsResult(data, p, q.cursor_obj))))

ListEvents(table, p) == ListEventsWith(table, p, <<>>)

\* a count of every row of the table, whatever the filters
GetTotalCountUnfiltered(table, additional_filters) == Cardinality(table)

\* get_total_count: select("id", count="exact") under the same loop over
\* additional_filters; result.count or 0
GetTotalCount(table, additional_filters) ==
    With(Cardinality(Filtered(table, ApplyFilters(additional_filters))),
         LAMBDA count : IF count = 0 THEN 0 ELSE count)

\* the items of a traversal: the page at p, then the pages reached by
\* following next_cursor, at most budget of them
RECURSIVE Follow(_, _, _, _)
Follow(table, p, additional_filters, budget) ==
    With(ListEventsWith(table, p, additional_filters), LAMBDA r :
        IF r.exc # "" THEN <<>>
        ELSE r.val.items \o
             (IF r.val.next_cursor = <<>> \/ budget = 0 THEN <<>>
              ELSE Follow(table,
                          PaginationParams(p.limit, r.val.next_cursor, p.order),
                          additional_filters, budget - 1)))

\* a request at any cursor: its parameters, the rows the query returned,
\* the page assembled from them and the total count if asked for
Fetched(p, additional_filters, made, data, result, total_count) ==
    [params |-> p, filters |-> additional_filters, made |-> made, data |-> data,
     page |-> result, total_count |-> total_count]

NoFetch == Fetched(PaginationParams(1, <<>>, "desc"), <<>>, FALSE, <<>>, NoPage, <<>>)

\* the cursors a client may send: none, the empty string, and the position
\* of any row
FetchCursors ==
    {<<>>, <<<<>>>>} \cup {<<Encode(PaginationCursor(r.created_at, r.id))>> :
                              r \in TableRows}

\* the filters a client may send
FilterChoices ==
    {<<>>,
     <<<<EventTypeColumn, <<<<"f", "e", "e", "d">>>>>>>>,
     <<<<NotesColumn \o SearchSuffix, <<<<"A">>>>>>>>,
     <<<<EventDateColumn \o FromSuffix, <<Datetime(2, 0, 0, TRUE)>>>>>>,
     <<<<EventDateColumn \o ToSuffix, <<Datetime(1, 0, 0, TRUE)>>>>,
       <<PlantIdColumn, <<>>>>>>,
     <<<<EventTypeColumn, <<<<"f", "e", "e", "d">>>>>>,
       <<NotesColumn \o SearchSuffix, <<<<"e", "D">>>>>>>>}

(***************************************************************************)
(* cached(ttl, key_prefix): the memoization wrapper over the global cache. *)
(* Keys are strings as sequences of characters.                            *)
(***************************************************************************)
MaxInvocations == 2

\* func.__name__
FuncName == <<"f">>

\* the arguments the function is called with
MemoArgs == {1, 2}

\* cache_key(x): the md5 digest, written "#x" and taken to be collision-free
CacheKey(x) == <<"#", DigitChar(x)>>

\* f"{key_prefix}:{func.__name__}" if key_prefix else func.__name__
FuncKey(key_prefix) ==
    IF key_prefix # <<>> THEN key_prefix \o <<":">> \o FuncName ELSE FuncName

\* full_key = f"{func_key}:{arg_key}"
FullKey(key_prefix, x) == FuncKey(key_prefix) \o <<":">> \o CacheKey(x)

\* f"{key_prefix}:{func.__name__}:{cache_key(*args, **kwargs)}"
DeleteKey(key_prefix, x) ==
    key_prefix \o <<":">> \o FuncName \o <<":">> \o CacheKey(x)

\* the decorated function: what it returns for each argument
Decorated(key_prefix, ttl, result) ==
    [key_prefix |-> key_prefix, ttl |-> ttl, result |-> result]

\* wrapper(x) at time t over the dict c
Wrapper(c, m, x, t) ==
    LET got == CacheGet(c, FullKey(m.key_prefix, x), t) IN
    IF got.ret # PyNone
    THEN [cache |-> got.cache, ret |-> got.ret, invoked |-> FALSE]
    ELSE [cache |-> CacheSet(got.cache, FullKey(m.key_prefix, x), m.result[x],
                             m.ttl, t),
          ret |-> m.result[x], invoked |-> TRUE]

\* wrapper.cache_delete(x)
WrapperCacheDelete(c, m, x) == CacheDelete(c, DeleteKey(m.key_prefix, x)).cache

\* the entries of the dict but the one the wrapper stores for x
Others(c, m, x) == SelectSeq(c, LAMBDA e : e.key # FullKey(m.key_prefix, x))

MemoObs(op, x, ret, ran, was, held, del, present, same) ==
    [op |-> op, arg |-> x, ret |-> ret, invoked |-> ran, was |-> was,
     held |-> held, deleted |-> del, present |-> present, same |-> same]

(***************************************************************************)
(* CacheManager: record keys, list keys and their invalidation.            *)
(***************************************************************************)
HarvestLogKey(log_id) == <<"h", "a", "r", "v", "e", "s", "t", "_", "l", "o", "g", ":">> \o log_id

HarvestLogsListPrefix == <<"h", "a", "r", "v", "e", "s", "t", "_", "l", "o", "g", "s", ":", "l", "i", "s", "t", ":">>

HarvestStatsKey == <<"h", "a", "r", "v", "e", "s", "t", "_", "s", "t", "a", "t", "s">>

PlantEventKey(event_id) == <<"p", "l", "a", "n", "t", "_", "e", "v", "e", "n", "t", ":">> \o event_id

PlantEventsListPrefix == <<"p", "l", "a", "n", "t", "_", "e", "v", "e", "n", "t", "s", ":", "l", "i", "s", "t", ":">>

EventStatsKey == <<"e", "v", "e", "n", "t", "_", "s", "t", "a", "t", "s">>

\* key.startswith(prefix)
StartsWith(key, prefix) ==
    Len(key) >= Len(prefix) /\ SubSeq(key, 1, Len(prefix)) = prefix

KeysToDeleteFirst(c, prefix) ==
    LET hits == SelectSeq(c, LAMBDA e : StartsWith(e.key, prefix))
    IN  IF hits = <<>> THEN <<>> ELSE <<hits[1].key>>

\* the scan under the lock: the keys of the dict that start with the prefix
KeysToDelete(c, prefix) ==
    LET hits == SelectSeq(c, LAMBDA e : StartsWith(e.key, prefix))
    IN  [i \in DOMAIN hits |-> hits[i].key]

\* for key in keys_to_delete: await self.cache.delete(key)
RECURSIVE DeleteEach(_, _)
DeleteEach(c, keys) ==
    IF keys = <<>> THEN c
    ELSE DeleteEach(CacheDelete(c, Head(keys)).cache, Tail(keys))

\* invalidate_harvest_logs_lists / invalidate_plant_events_lists
InvalidateLists(c, prefix) == DeleteEach(c, KeysToDelete(c, prefix))

\* invalidate_harvest_log
InvalidateHarvestLog(c, log_id) ==
    InvalidateLists(CacheDelete(c, HarvestLogKey(log_id)).cache,
                    HarvestLogsListPrefix)

\* invalidate_plant_event
InvalidatePlantEvent(c, event_id) ==
    InvalidateLists(CacheDelete(c, PlantEventKey(event_id)).cache,
                    PlantEventsListPrefix)

\* the ids of records
RecordIds == {<<"1">>, <<"2">>}

\* the keys the facade has stored entries under, in the order stored
FacadeKeys ==
    <<HarvestLogKey(<<"1">>), HarvestLogsListPrefix \o CacheKey(1),
      PlantEventKey(<<"1">>), HarvestStatsKey, HarvestLogKey(<<"2">>),
      HarvestLogsListPrefix \o CacheKey(2), PlantEventsListPrefix \o CacheKey(1),
      EventStatsKey, PlantEventsListPrefix \o CacheKey(2)>>

\* the dicts holding entries under some of these keys
FacadeDicts ==
    {SelectSeq([i \in DOMAIN FacadeKeys |->
                   CacheEntry(FacadeKeys[i], "v", 0, <<DefaultTtl>>)],
               LAMBDA e : e.key \in S) : S \in SUBSET {FacadeKeys[i] : i \in DOMAIN FacadeKeys}}

Invalidation(entity, id, before) == [entity |-> entity, id |-> id, before |-> before]

NoInvalidation == Invalidation("none", <<>>, <<>>)

(***************************************************************************)
(* cleanup_cache_task, run by BackgroundTaskManager._run_periodic_task.    *)
(***************************************************************************)
CleanMaxTime == 900

\* await asyncio.sleep(300)
NormalSleep == 300

\* await asyncio.sleep(60)
ErrorSleep == 60

\* the exceptions a purge may raise
PurgeFaults == {"TypeError", "MemoryError"}

ExceptNothing(exc) == FALSE

\* "except Exception" catches exc
ExceptException(exc) == exc \in {"TypeError", "MemoryError"}

\* cleanup_expired when it raises after deleting j of the expired keys
CleanupExpiredPartly(c, t, j) ==
    LET expired == SelectSeq(c, LAMBDA e : IsExpired(e, t))
        gone == {expired[i].key : i \in 1..j}
    IN  SelectSeq(c, LAMBDA e : e.key \notin gone)

\* where a pass of cleanup_cache_task goes after a purge that raised exc
\* ("" if none), and for how long it sleeps.  What its "except Exception"
\* does not catch, the same clause of _run_periodic_task does not catch
\* either, and the task ends.
AfterPurge(exc) ==
    IF exc = "" THEN <<"sleeping", NormalSleep>>
    ELSE IF ExceptException(exc) THEN <<"sleeping", ErrorSleep>>
    ELSE <<"crashed", 0>>

Task(state, wake, outcome, ran_at, before, prev, gap) ==
    [state |-> state, wake |-> wake, outcome |-> outcome, ran_at |-> ran_at,
     before |-> before, prev |-> prev, gap |-> gap]

\* the task as created by start(): its first purge is due at once
NewTask == Task("sleeping", 0, "none", 0, <<>>, "none", 0)

NoTask == Task("none", 0, "none", 0, <<>>, "none", 0)

\* entries that expire at different times, and one that never does
CleanDicts ==
    {SelectSeq(<<CacheEntry("a", "v", 0, <<30>>), CacheEntry("b", "v", 0, <<50>>),
                 CacheEntry("c", "v", 0, <<200>>), CacheEntry("", "v", 0, <<>>)>>,
               LAMBDA e : e.key \in S) : S \in SUBSET {"a", "b", "c", ""}}

(***************************************************************************)
(* Coroutines and the two locks: InMemoryCache._lock ("cache") and         *)
(* RateLimitMiddleware._lock ("rate").  A call is a sequence of steps,     *)
(* each taken under one lock ("async with self._lock") or under none.      *)
(***************************************************************************)
MaxCalls == 3

Coroutines == {"t1", "t2", "t3"}

Locks == {"cache", "rate"}

ListKeys == {1, 2}

Step(lock, step, key) == [lock |-> lock, step |-> step, key |-> key]

\* the steps of a call: a cache operation (set of a list key), the facade's
\* invalidate_harvest_log (delete of the record key, the key scan; the
\* scan adds a delete for each key it found), dispatch of the rate limiter
\* (the check, call_next, the count for the headers)
StepsOf(kind, key) ==
    IF kind = "set" THEN <<Step("cache", "set", key)>>
    ELSE IF kind = "invalidate"
    THEN <<Step("cache", "delete", 0), Step("cache", "scan", 0)>>
    ELSE <<Step("rate", "check", 0), Step("none", "call_next", 0),
           Step("rate", "headers", 0)>>

\* the deletes that follow the scan, one for each list key found
RECURSIVE DeletesFor(_)
DeletesFor(found) ==
    IF found = {} THEN <<>>
    ELSE LET k == CHOOSE x \in found : \A y \in found : x <= y
         IN  <<Step("cache", "delete", k)>> \o DeletesFor(found \ {k})

Job(kind, steps) == [call |-> kind, steps |-> steps]

NoJob == Job("none", <<>>)

\* the lock stays held when its holder leaves
LockKept(h, lock) == h

\* __aexit__: the lock is released
LockReleased(h, lock) == IF lock = "none" THEN h ELSE [h EXCEPT ![lock] = <<>>]

\* asyncio.Lock.acquire at once: the lock is free and nobody waits for it
LockFree(lock) == lock = "none" \/ (holder[lock] = <<>> /\ queue[lock] = <<>>)

(***************************************************************************)
(* BackgroundTaskManager.  mgr holds _running, _tasks (the entry under     *)
(* "cache_cleanup", if any), the state of every task created so far        *)
(* ("none" before it is created, "alive", "cancelling" once cancel() was   *)
(* called on it, "cancelled" when it is done), and for each caller where   *)
(* it is: "idle", or "awaiting" inside stop() at "await task".  last is    *)
(* the last call that returned or raised.                                  *)
(***************************************************************************)
MaxTasks == 3

Callers == {"c1", "c2"}

TaskIds == 1..MaxTasks

Manager(running, tasks, state, at, awaited, size, lastCall) ==
    [running |-> running, tasks |-> tasks, state |-> state, pc |-> at,
     awaited |-> awaited, size |-> size, last |-> lastCall]

\* BackgroundTaskManager.__init__
NewManager ==
    Manager(FALSE, <<>>, [i \in TaskIds |-> "none"], [c \in Callers |-> "idle"],
            [c \in Callers |-> 0], [c \in Callers |-> 0], "none")

\* the tasks created so far
Created(m) == {i \in TaskIds : m.state[i] # "none"}

\* the tasks that are not done
Running(m) == {i \in TaskIds : m.state[i] \in {"alive", "cancelling"}}

baseVars == <<now, cacheVars, concVars, rlVars>>
notCodec == <<baseVars, pageVars, memoVars, inv, task, liveVars, fetch, mgr>>
notPage == <<baseVars, codecVars, memoVars, inv, task, liveVars, fetch, mgr>>
\* what the memoization wrapper leaves alone: all but the cache it uses
notMemo == <<last, stored, concVars, rlVars, codecVars, pageVars, inv, task, liveVars, fetch, mgr>>
\* what the invalidations of CacheManager leave alone
notInv == <<now, last, stored, concVars, rlVars, codecVars, pageVars, memoVars, task,
            liveVars, fetch, mgr>>
\* what the cleanup task leaves alone
notTask == <<last, stored, concVars, rlVars, codecVars, pageVars, memoVars, inv,
             liveVars, fetch, mgr>>
\* what the coroutines contending for the locks leave alone
notLive == <<baseVars, codecVars, pageVars, memoVars, inv, task, fetch, mgr>>
\* what a request at a cursor leaves alone
notFetch == <<baseVars, codecVars, pageVars, memoVars, inv, task, liveVars, mgr>>
\* what the calls of the task manager leave alone
notMgr == <<baseVars, codecVars, pageVars, memoVars, inv, task, liveVars, fetch>>

vars == <<now, cache, last, stored, concVars, rlVars, laterVars>>

\* no cursor and no token at hand
InitCodec ==
    /\ token = <<>>
    /\ origin = "none"
    /\ source = <<>>
    /\ decoded = Pending
    /\ api = NoApi

\* the cache and the rate limiter as constructed, no caller at work
InitWith(c) ==
    /\ now = 0
    /\ cache = c
    /\ stored = <<>>
    /\ last = Obs("init", "", PyNone, <<>>)
    /\ locked = FALSE
    /\ waiters = <<>>
    /\ pc = [p \in Procs |-> "idle"]
    /\ call = [p \in Procs |-> NoCall]
    /\ loc = [p \in Procs |-> NoLocals]
    /\ scache = <<>>
    /\ sret = [p \in Procs |-> NoResult]
    /\ agree = TRUE
    /\ clients = <<>>
    /\ handling = [k \in ClientIps \X Paths |-> 0]
    /\ req = NoRequest
    /\ resp = NoResponse
    /\ admitted = [ip \in ClientIps |-> [recent |-> <<>>, last |-> <<>>]]

\* no traversal under way
InitPage ==
    /\ rows = {}
    /\ initial = {}
    /\ params = PaginationParams(1, <<>>, "desc")
    /\ next_cursor = <<>>
    /\ page = NoPage
    /\ seen = <<>>
    /\ phase = "idle"

InitBase == InitWith(<<>>)

\* both locks free, no coroutine at work
InitLive ==
    /\ holder = [l \in Locks |-> <<>>]
    /\ queue = [l \in Locks |-> <<>>]
    /\ lpc = [t \in Coroutines |-> "idle"]
    /\ job = [t \in Coroutines |-> NoJob]
    /\ listed = {}
    /\ invocations = 0

\* no function decorated
InitMemo ==
    /\ memo = Decorated(<<>>, <<>>, [x \in MemoArgs |-> PyNone])
    /\ invoked = [x \in MemoArgs |-> 0]
    /\ deleted = {}
    /\ mlast = MemoObs("none", 1, PyNone, FALSE, "absent", PyNone, FALSE, FALSE, TRUE)

\* every part of the state idle but the named one
IdleExcept(part) ==
    /\ part = "codec" \/ InitCodec
    /\ part = "page" \/ InitPage
    /\ part = "memo" \/ InitMemo
    /\ part = "inv" \/ inv = NoInvalidation
    /\ part = "task" \/ task = NoTask
    /\ InitLive
    /\ fetch = NoFetch
    /\ mgr = NewManager

Init ==
    /\ InitBase
    /\ IdleExcept("none")

(***************************************************************************)
(* Spec: one key under every kind of ttl argument and two values           *)
(* (expiry).  SpecLru: a cache that fills up, three keys, one value, the   *)
(* default and an explicit ttl (capacity and eviction).                    *)
(***************************************************************************)
TtlKeys == {"a"}
LruTtlArgs == {<<1>>}
LruValues == {"v1"}

Next ==
    \/ \E key \in TtlKeys : Get(key)
    \/ \E key \in TtlKeys, value \in Values, ttl \in TtlArgs : Set(key, value, ttl)
    \/ \E key \in TtlKeys : Delete(key)
    \/ Clear
    \/ CleanupExpired
    \/ GetStats
    \/ Tick

Spec == Init /\ [][Next]_vars

NextLru ==
    \/ \E key \in Keys : Get(key)
    \/ \E key \in Keys, value \in LruValues, ttl \in LruTtlArgs : Set(key, value, ttl)
    \/ \E key \in Keys : Delete(key)
    \/ Clear
    \/ CleanupExpired
    \/ GetStats
    \/ Tick

SpecLru == Init /\ [][NextLru]_vars

(***************************************************************************)
(* Concurrent callers.  Every operation is "async with self._lock: ...":   *)
(* a caller takes the lock, runs the body and releases the lock.  The body *)
(* is split at its reads and writes of the dict, so that callers would     *)
(* interleave inside it if the lock let two of them in.  A caller reads    *)
(* the clock once, when it enters.  scache and sret follow the same calls  *)
(* run whole (CacheGet, CacheSet, ...) in the order the lock was taken.    *)
(***************************************************************************)
\* set is called on every key; get and delete on one of them.
ConcKeys == Keys
ConcGetKeys == {"a"}
ConcValues == {"v1"}
ConcTtlArgs == {<<1>>}

ConcCalls ==
    {[op |-> o, key |-> k, value |-> PyNone, ttl |-> <<>>] :
        o \in {"get", "delete"}, k \in ConcGetKeys}
    \cup {[op |-> "set", key |-> k, value |-> v, ttl |-> t] :
            k \in ConcKeys, v \in ConcValues, t \in ConcTtlArgs}
    \cup {[op |-> o, key |-> "", value |-> PyNone, ttl |-> <<>>] :
            o \in {"clear", "cleanup_expired", "get_stats"}}

\* The call cl run whole on the dict c at time t.
Serial(c, cl, t) ==
    CASE cl.op = "get" ->
           LET r == CacheGet(c, cl.key, t) IN
           [cache |-> r.cache, res |-> Result(r.ret, FALSE, 0, NoStats)]
      [] cl.op = "set" ->
           [cache |-> CacheSet(c, cl.key, cl.value, cl.ttl, t), res |-> NoResult]
      [] cl.op = "delete" ->
           LET r == CacheDelete(c, cl.key) IN
           [cache |-> r.cache, res |-> Result(PyNone, r.ok, 0, NoStats)]
      [] cl.op = "clear" ->
           [cache |-> CacheClear(c), res |-> NoResult]
      [] cl.op = "cleanup_expired" ->
           LET r == CacheCleanupExpired(c, t) IN
           [cache |-> r.cache, res |-> Result(PyNone, FALSE, r.n, NoStats)]
      [] cl.op = "get_stats" ->
           [cache |-> c, res |-> Result(PyNone, FALSE, 0, CacheGetStats(c, t))]

\* The first step of each body.
FirstStep(op) ==
    CASE op = "get" -> "get_read"
      [] op = "set" -> "set_evict"
      [] op = "delete" -> "delete"
      [] op = "clear" -> "clear"
      [] op = "cleanup_expired" -> "cleanup_scan"
      [] op = "get_stats" -> "stats_count"

\* A lock that lets every caller in.
LockAlwaysAvailable == TRUE

\* asyncio.Lock.acquire: the lock is taken at once when it is free and
\* nobody is waiting for it.
LockAvailable == ~locked /\ waiters = <<>>

\* Caller p is inside "async with self._lock".
InLock(p) == pc[p] \notin {"idle", "wait"}

\* p has the lock and starts the body of call cl.
Enter(p, cl) ==
    /\ locked' = TRUE
    /\ loc' = [loc EXCEPT ![p] = [NoLocals EXCEPT !.t = now]]
    /\ pc' = [pc EXCEPT ![p] = FirstStep(cl.op)]
    /\ LET s == Serial(scache, cl, now) IN
        /\ scache' = s.cache
        /\ sret' = [sret EXCEPT ![p] = s.res]

\* p calls an operation of the cache and comes to "async with self._lock"
\* (__aenter__): it takes the lock or queues for it.
CallOp(p, cl) ==
    /\ pc[p] = "idle"
    /\ (cl.op = "get" /\ Has(cache, cl.key))
          => Lookup(cache, cl.key).access_count < MaxAccess
    /\ call' = [call EXCEPT ![p] = cl]
    /\ IF LockAvailable
       THEN Enter(p, cl) /\ UNCHANGED waiters
       ELSE /\ waiters' = Append(waiters, p)
            /\ pc' = [pc EXCEPT ![p] = "wait"]
            /\ UNCHANGED <<locked, loc, scache, sret>>
    /\ UNCHANGED <<now, cacheVars, agree, rlVars, laterVars>>

\* The first waiter is woken by a release and takes the lock.
Resume(p) ==
    /\ pc[p] = "wait"
    /\ ~locked
    /\ waiters # <<>> /\ Head(waiters) = p
    /\ waiters' = Tail(waiters)
    /\ Enter(p, call[p])
    /\ UNCHANGED <<now, cacheVars, call, agree, rlVars, laterVars>>

\* The body goes on to its next step.
Goto(p, step, c, l) ==
    /\ cache' = c
    /\ loc' = [loc EXCEPT ![p] = l]
    /\ pc' = [pc EXCEPT ![p] = step]
    /\ UNCHANGED <<now, last, stored, locked, waiters, call, scache, sret, agree, rlVars, laterVars>>

\* The body returns res: __aexit__ releases the lock.
Finish(p, c, res) ==
    /\ cache' = c
    /\ agree' = (agree /\ res = sret[p])
    /\ pc' = [pc EXCEPT ![p] = "idle"]
    /\ call' = [call EXCEPT ![p] = NoCall]
    /\ loc' = [loc EXCEPT ![p] = NoLocals]
    /\ sret' = [sret EXCEPT ![p] = NoResult]
    /\ locked' = FALSE
    /\ UNCHANGED <<now, last, stored, waiters, scache, rlVars, laterVars>>

\* get: look the entry up and test its expiry.
GetRead(p) ==
    /\ pc[p] = "get_read"
    /\ LET entry == DictGet(cache, call[p].key) IN
       IF entry = <<>> THEN Finish(p, cache, NoResult)
       ELSE IF IsExpired(entry[1], loc[p].t)
            THEN Finish(p, DictDel(cache, call[p].key), NoResult)
            ELSE Goto(p, "get_write", cache,
                      [loc[p] EXCEPT !.acc = entry[1].access_count,
                                     !.val = entry[1].value])

\* get: entry.access_count += 1; entry.last_accessed = now; return value.
GetWrite(p) ==
    /\ pc[p] = "get_write"
    /\ LET key == call[p].key
           c == IF Has(cache, key)
                THEN DictPut(cache, [Lookup(cache, key) EXCEPT
                                        !.access_count = loc[p].acc + 1,
                                        !.last_accessed = <<loc[p].t>>])
                ELSE cache
       IN  Finish(p, c, Result(loc[p].val, FALSE, 0, NoStats))

\* set: make room if the cache is full.
SetEvict(p) ==
    /\ pc[p] = "set_evict"
    /\ Goto(p, "set_store",
            IF MustEvict(cache, call[p].key) THEN EvictLru(cache) ELSE cache,
            loc[p])

\* set: store the new entry.
SetStore(p) ==
    /\ pc[p] = "set_store"
    /\ LET cl == call[p]
           expires_at == ExpiresAt(loc[p].t, EffectiveTtl(cl.ttl))
       IN  Finish(p, DictPut(cache, CacheEntry(cl.key, cl.value, loc[p].t, expires_at)),
                  NoResult)

DeleteStep(p) ==
    /\ pc[p] = "delete"
    /\ LET r == CacheDelete(cache, call[p].key) IN
       Finish(p, r.cache, Result(PyNone, r.ok, 0, NoStats))

ClearStep(p) ==
    /\ pc[p] = "clear"
    /\ Finish(p, CacheClear(cache), NoResult)

\* cleanup_expired: collect the expired keys.
CleanupScan(p) ==
    /\ pc[p] = "cleanup_scan"
    /\ Goto(p, "cleanup_delete", cache,
            [loc[p] EXCEPT !.keys =
                {cache[i].key : i \in {j \in 1..Len(cache) :
                                         IsExpired(cache[j], loc[p].t)}}])

\* cleanup_expired: delete them and return their number.
CleanupDelete(p) ==
    /\ pc[p] = "cleanup_delete"
    /\ Finish(p, SelectSeq(cache, LAMBDA e : e.key \notin loc[p].keys),
              Result(PyNone, FALSE, Cardinality(loc[p].keys), NoStats))

\* get_stats: total_entries = len(self._cache).
StatsCount(p) ==
    /\ pc[p] = "stats_count"
    /\ Goto(p, "stats_sum", cache, [loc[p] EXCEPT !.n = Len(cache)])

\* get_stats: the sums over the entries and the result.
StatsSum(p) ==
    /\ pc[p] = "stats_sum"
    /\ LET total_accesses == SumAccess(cache, 1)
           stats == [total_entries |-> loc[p].n,
                     max_size |-> MaxSize,
                     total_accesses |-> total_accesses,
                     expired_entries |->
                        Cardinality({i \in 1..Len(cache) :
                                        IsExpired(cache[i], loc[p].t)}),
                     hit_rate |-> IF total_accesses = 0 THEN <<0, 1>>
                                  ELSE <<total_accesses, loc[p].n>>]
       IN  Finish(p, cache, Result(PyNone, FALSE, 0, stats))

ConcTick ==
    /\ now < MaxTime
    /\ now' = now + 1
    /\ UNCHANGED <<cacheVars, concVars, rlVars, laterVars>>

NextConc ==
    \/ \E p \in Procs, cl \in ConcCalls : CallOp(p, cl)
    \/ \E p \in Procs : Resume(p)
    \/ \E p \in Procs : GetRead(p)
    \/ \E p \in Procs : GetWrite(p)
    \/ \E p \in Procs : SetEvict(p)
    \/ \E p \in Procs : SetStore(p)
    \/ \E p \in Procs : DeleteStep(p)
    \/ \E p \in Procs : ClearStep(p)
    \/ \E p \in Procs : CleanupScan(p)
    \/ \E p \in Procs : CleanupDelete(p)
    \/ \E p \in Procs : StatsCount(p)
    \/ \E p \in Procs : StatsSum(p)
    \/ ConcTick

SpecConc == Init /\ [][NextConc]_vars

(***************************************************************************)
(* Actions of the rate limiter: a request arrives at dispatch, a handler    *)
(* returns, the clock advances.                                            *)
(***************************************************************************)
DispatchUpTo(r, inflight) ==
    LET ip == GetClientIp(r)
        res == IF IsExempt(r.path)
               THEN [clients |-> clients, limited |-> FALSE, limit_type |-> "none"]
               ELSE IsRateLimited(clients, ip, now)
        next == CallsNext(r.path, res.limited)
    IN  /\ next => Inflight < inflight
        /\ clients' = res.clients
        /\ handling' = IF next THEN [handling EXCEPT ![<<ip, r.path>>] = @ + 1]
                       ELSE handling
        /\ resp' = IF next THEN resp ELSE RateLimitResponse(ip, r.path)
        /\ admitted' = IF ~IsExempt(r.path) /\ ~res.limited
                       THEN [admitted EXCEPT ![ip] =
                                [recent |-> Append(@.recent, now), last |-> <<now>>]]
                       ELSE admitted
        /\ req' = [ip |-> ip, path |-> r.path,
                   blocked |-> ~IsExempt(r.path) /\ res.limited,
                   invoked |-> handling' # handling,
                   untouched |-> clients' = clients,
                   minute |-> Younger(admitted[ip].recent, now, 60),
                   burst |-> Younger(admitted[ip].recent, now, 10),
                   idle |-> Idle(admitted[ip], now),
                   reply |-> IF next THEN NoResponse ELSE resp']
        /\ UNCHANGED <<now, cacheVars, concVars, laterVars>>

\* dispatch, with at most MaxInflight requests inside call_next
Dispatch(r) == DispatchUpTo(r, MaxInflight)

\* call_next returns and dispatch adds the rate limit headers
HandlerReturn(ip, path, status) ==
    /\ handling[<<ip, path>>] > 0
    /\ handling' = [handling EXCEPT ![<<ip, path>>] = @ - 1]
    /\ resp' = HandlerResponse(clients, ip, path, status)
    /\ UNCHANGED <<now, cacheVars, concVars, clients, req, admitted, laterVars>>

ClockAdvances(step, max) ==
    /\ now + step <= max
    /\ now' = now + step
    /\ admitted' = [ip \in ClientIps |->
                      [recent |-> SelectSeq(admitted[ip].recent,
                                            LAMBDA x : now' - x < 60),
                       last |-> admitted[ip].last]]
    /\ req' = NoRequest
    /\ resp' = NoResponse
    /\ UNCHANGED <<cacheVars, concVars, clients, handling, laterVars>>

RlTick == ClockAdvances(ClockStep, RlMaxTime)

NextRl ==
    \/ \E r \in Requests : Dispatch(r)
    \/ \E ip \in ClientIps, path \in Paths, status \in HandlerStatuses :
           HandlerReturn(ip, path, status)
    \/ RlTick

SpecRl == Init /\ [][NextRl]_vars

(***************************************************************************)
(* SpecClients: two clients whose requests overlap, up to MaxConcurrent    *)
(* of them inside call_next at once, on a coarser clock.                   *)
(***************************************************************************)
MaxConcurrent == 2
CoarseStep == 20
CoarseMaxTime == 80

\* direct connections of the two clients, and a health check
ClientRequests ==
    {Request(<<>>, <<>>, <<IpA>>, "/api/harvest-logs"),
     Request(<<>>, <<>>, <<IpB>>, "/api/harvest-logs"),
     Request(<<>>, <<>>, <<IpB>>, "/health")}

NextClients ==
    \/ \E r \in ClientRequests : DispatchUpTo(r, MaxConcurrent)
    \/ \E ip \in ClientIps, path \in Paths, status \in HandlerStatuses :
           HandlerReturn(ip, path, status)
    \/ ClockAdvances(CoarseStep, CoarseMaxTime)

SpecClients == Init /\ [][NextClients]_vars

(***************************************************************************)
(* Actions of the cursor codec: the cursor at hand is encoded; the token    *)
(* is decoded; the token is sent to the paginated listing.                 *)
(***************************************************************************)
EncodeCursor ==
    /\ origin = "cursor"
    /\ token' = Encode(source[1])
    /\ origin' = "encoded"
    /\ UNCHANGED <<source, decoded, api, notCodec>>

DecodeToken ==
    /\ origin \in {"encoded", "malformed"}
    /\ decoded = Pending
    /\ decoded' = Decode(token)
    /\ UNCHANGED <<token, origin, source, api, notCodec>>

RequestListing(db_ok) ==
    /\ origin \in {"encoded", "malformed"}
    /\ api = NoApi
    /\ api' = GetHarvestLogsPaginated(<<token>>, db_ok)
    /\ UNCHANGED <<token, origin, source, decoded, notCodec>>

NextCodec ==
    \/ EncodeCursor
    \/ DecodeToken
    \/ \E db_ok \in BOOLEAN : RequestListing(db_ok)

\* a cursor to encode, or a malformed token
InitCodecInputs ==
    /\ \/ \E c \in Cursors :
              source = <<c>> /\ token = <<>> /\ origin = "cursor"
       \/ \E t \in MalformedTokens :
              source = <<>> /\ token = t /\ origin = "malformed"
    /\ decoded = Pending
    /\ api = NoApi

InitCodecSpec ==
    /\ InitBase
    /\ IdleExcept("codec")
    /\ InitCodecInputs

SpecCodec == InitCodecSpec /\ [][NextCodec]_vars

(***************************************************************************)
(* A traversal: the client requests the first page without a cursor and    *)
(* then follows next_cursor; rows are inserted between its requests.       *)
(***************************************************************************)
RequestPage ==
    /\ phase \in {"start", "more"}
    /\ \E r \in {ListEvents(rows, PaginationParams(params.limit, next_cursor,
                                                  params.order))} :
           IF r.exc # ""
           THEN /\ phase' = "failed"
                /\ UNCHANGED <<page, seen, next_cursor>>
           ELSE /\ page' = r.val
                /\ seen' = seen \o r.val.items
                /\ next_cursor' = r.val.next_cursor
                /\ phase' = IF r.val.next_cursor # <<>> THEN "more" ELSE "done"
    /\ UNCHANGED <<rows, initial, params, notPage>>

InsertRow(row) ==
    /\ phase = "more"
    /\ row \notin rows
    /\ Cardinality(rows \ initial) < MaxInserts
    /\ rows' = rows \cup {row}
    /\ UNCHANGED <<initial, params, next_cursor, page, seen, phase, notPage>>

NextPage ==
    \/ RequestPage
    \/ \E row \in TableRows : InsertRow(row)

InitPageSpec ==
    /\ InitBase
    /\ IdleExcept("page")
    /\ rows \in SUBSET TableRows
    /\ initial = rows
    /\ params \in {PaginationParams(l, <<>>, o) : l \in 1..MaxLimit,
                                                 o \in {"asc", "desc"}}
    /\ next_cursor = <<>>
    /\ page = NoPage
    /\ seen = <<>>
    /\ phase = "start"

SpecPage == InitPageSpec /\ [][NextPage]_vars

(***************************************************************************)
(* Calls of a decorated function and of its cache_delete, one at a time.   *)
(***************************************************************************)
MemoCall(x) ==
    /\ invoked[x] < MaxInvocations
    /\ KeyState(cache, FullKey(memo.key_prefix, x), now) = "fresh"
          => Lookup(cache, FullKey(memo.key_prefix, x)).access_count < MaxAccess
    /\ \E r \in {Wrapper(cache, memo, x, now)} :
           /\ cache' = r.cache
           /\ invoked' = [invoked EXCEPT ![x] = @ + (IF r.invoked THEN 1 ELSE 0)]
           /\ mlast' = MemoObs("call", x, r.ret, r.invoked,
                               KeyState(cache, FullKey(memo.key_prefix, x), now),
                               IF Has(cache, FullKey(memo.key_prefix, x))
                               THEN Lookup(cache, FullKey(memo.key_prefix, x)).value
                               ELSE PyNone,
                               x \in deleted,
                               Has(r.cache, FullKey(memo.key_prefix, x)),
                               Others(r.cache, memo, x) = Others(cache, memo, x))
    /\ deleted' = deleted \ {x}
    /\ UNCHANGED <<now, memo, notMemo>>

MemoCacheDelete(x) ==
    /\ \E c \in {WrapperCacheDelete(cache, memo, x)} :
           /\ cache' = c
           /\ mlast' = MemoObs("delete", x, PyNone, FALSE,
                               KeyState(cache, FullKey(memo.key_prefix, x), now),
                               PyNone, x \in deleted,
                               Has(c, FullKey(memo.key_prefix, x)),
                               Others(c, memo, x) = Others(cache, memo, x))
    /\ deleted' = deleted \cup {x}
    /\ UNCHANGED <<now, memo, invoked, notMemo>>

MemoTick ==
    /\ now < MaxTime
    /\ now' = now + 1
    /\ UNCHANGED <<cache, memoVars, notMemo>>

NextMemo ==
    \/ \E x \in MemoArgs : MemoCall(x)
    \/ \E x \in MemoArgs : MemoCacheDelete(x)
    \/ MemoTick

InitMemoSpec ==
    /\ InitBase
    /\ IdleExcept("memo")
    /\ memo \in {Decorated(k, t, r) : k \in {<<>>, <<"p">>}, t \in {<<>>, <<2>>},
                                     r \in [MemoArgs -> {PyNone, "v"}]}
    /\ invoked = [x \in MemoArgs |-> 0]
    /\ deleted = {}
    /\ mlast = MemoObs("none", 1, PyNone, FALSE, "absent", PyNone, FALSE, FALSE, TRUE)

SpecMemo == InitMemoSpec /\ [][NextMemo]_vars

(***************************************************************************)
(* Invalidations of the facade over a cache that holds entries.  No cache  *)
(* operation suspends while it holds the lock, so an invalidation runs     *)
(* from its first delete to its last without another coroutine between.    *)
(***************************************************************************)
InvalidateHarvest(log_id) ==
    /\ cache' = InvalidateHarvestLog(cache, log_id)
    /\ inv' = Invalidation("harvest_log", log_id, cache)
    /\ UNCHANGED notInv

InvalidateEvent(event_id) ==
    /\ cache' = InvalidatePlantEvent(cache, event_id)
    /\ inv' = Invalidation("plant_event", event_id, cache)
    /\ UNCHANGED notInv

NextInv ==
    \/ \E id \in RecordIds : InvalidateHarvest(id)
    \/ \E id \in RecordIds : InvalidateEvent(id)

InitInvSpec ==
    /\ \E c \in FacadeDicts : InitWith(c)
    /\ IdleExcept("inv")
    /\ inv = NoInvalidation

SpecInv == InitInvSpec /\ [][NextInv]_vars

(***************************************************************************)
(* The cleanup task: it purges when its sleep ends, and a purge either     *)
(* completes or raises at some point of its body.                          *)
(***************************************************************************)
\* one pass of the loop whose purge raised exc after j deletions, or
\* completed (exc = "")
Pass(exc, c) ==
    /\ cache' = c
    /\ task' = Task(AfterPurge(exc)[1], now + AfterPurge(exc)[2],
                    IF exc = "" THEN "ok" ELSE "raised", now, cache,
                    task.outcome, now - task.ran_at)
    /\ UNCHANGED <<now, notTask>>

PurgeCompletes ==
    /\ task.state = "sleeping" /\ now = task.wake
    /\ Pass("", CacheCleanupExpired(cache, now).cache)

PurgeRaises(exc, j) ==
    /\ task.state = "sleeping" /\ now = task.wake
    /\ j <= Len(SelectSeq(cache, LAMBDA e : IsExpired(e, now)))
    /\ Pass(exc, CleanupExpiredPartly(cache, now, j))

\* asyncio.sleep returns
Sleep ==
    /\ task.state = "sleeping" /\ now < task.wake
    /\ task.wake <= CleanMaxTime
    /\ now' = task.wake
    /\ UNCHANGED <<cache, task, notTask>>

\* BackgroundTaskManager.stop(): the task is cancelled in its sleep
StopTask ==
    /\ task.state = "sleeping" /\ now < task.wake
    /\ task' = [task EXCEPT !.state = "cancelled"]
    /\ UNCHANGED <<now, cache, notTask>>

NextTask ==
    \/ PurgeCompletes
    \/ \E exc \in PurgeFaults, j \in 0..3 : PurgeRaises(exc, j)
    \/ Sleep
    \/ StopTask

InitTaskSpec ==
    /\ \E c \in CleanDicts : InitWith(c)
    /\ IdleExcept("task")
    /\ task = NewTask

SpecTask == InitTaskSpec /\ [][NextTask]_vars

(***************************************************************************)
(* Coroutines contending for the locks.  The event loop runs every         *)
(* coroutine that can run: each coroutine's steps are weakly fair, while   *)
(* new calls may or may not be made.                                       *)
(***************************************************************************)
Invoke(t, kind, key) ==
    /\ lpc[t] = "idle"
    /\ invocations < MaxCalls
    /\ invocations' = invocations + 1
    /\ job' = [job EXCEPT ![t] = Job(kind, StepsOf(kind, key))]
    /\ lpc' = [lpc EXCEPT ![t] = "ready"]
    /\ UNCHANGED <<holder, queue, listed, notLive>>

\* t comes to its next step: it takes the lock of the step or queues for it
Acquire(t) ==
    /\ lpc[t] = "ready"
    /\ LET lock == Head(job[t].steps).lock IN
       IF LockFree(lock)
       THEN /\ holder' = IF lock = "none" THEN holder
                         ELSE [holder EXCEPT ![lock] = <<t>>]
            /\ lpc' = [lpc EXCEPT ![t] = "in"]
            /\ UNCHANGED queue
       ELSE /\ queue' = [queue EXCEPT ![lock] = Append(@, t)]
            /\ lpc' = [lpc EXCEPT ![t] = "wait"]
            /\ UNCHANGED holder
    /\ UNCHANGED <<job, listed, invocations, notLive>>

\* the first waiter is woken by a release and takes the lock
Wake(t) ==
    /\ lpc[t] = "wait"
    /\ LET lock == Head(job[t].steps).lock IN
       /\ holder[lock] = <<>>
       /\ queue[lock] # <<>> /\ Head(queue[lock]) = t
       /\ queue' = [queue EXCEPT ![lock] = Tail(@)]
       /\ holder' = [holder EXCEPT ![lock] = <<t>>]
    /\ lpc' = [lpc EXCEPT ![t] = "in"]
    /\ UNCHANGED <<job, listed, invocations, notLive>>

\* t takes its step and leaves the lock; limited is what the rate
\* limiter's check finds
Leave(t, limited) ==
    /\ lpc[t] = "in"
    /\ LET s == Head(job[t].steps)
           rest == IF s.step = "scan" THEN DeletesFor(listed)
                   ELSE IF s.step = "check" /\ limited THEN <<>>
                   ELSE Tail(job[t].steps)
       IN  /\ holder' = LockReleased(holder, s.lock)
           /\ listed' = IF s.step = "set" THEN listed \cup {s.key}
                         ELSE IF s.step = "delete" THEN listed \ {s.key}
                         ELSE listed
           /\ job' = [job EXCEPT ![t] = IF rest = <<>> THEN NoJob
                                        ELSE Job(job[t].call, rest)]
           /\ lpc' = [lpc EXCEPT ![t] = IF rest = <<>> THEN "idle" ELSE "ready"]
    /\ UNCHANGED <<queue, invocations, notLive>>

\* the steps of coroutine t
Run(t) == Acquire(t) \/ Wake(t) \/ \E limited \in BOOLEAN : Leave(t, limited)

NextLive ==
    \/ \E t \in Coroutines, kind \in {"set", "invalidate", "dispatch"},
          key \in ListKeys : Invoke(t, kind, key)
    \/ \E t \in Coroutines : Acquire(t)
    \/ \E t \in Coroutines : Wake(t)
    \/ \E t \in Coroutines, limited \in BOOLEAN : Leave(t, limited)

InitLiveSpec ==
    /\ InitBase
    /\ IdleExcept("live")

SpecLive ==
    InitLiveSpec /\ [][NextLive]_vars /\ \A t \in Coroutines : WF_vars(Run(t))


(***************************************************************************)
(* SpecFetch: one paginated request over a table, at a cursor, limit,      *)
(* order and filters of the client's choice, with or without the total     *)
(* count.                                                                  *)
(***************************************************************************)
Fetch(p, additional_filters, include_total) ==
    /\ ~fetch.made
    /\ \E q \in {BuildEventsQueryWith(p, additional_filters)} :
          /\ q.exc = ""
          /\ \E data \in {Execute(rows, q.val)} :
                fetch' = Fetched(p, additional_filters, TRUE, data,
                                 ProcessEventsResult(data, p, q.val.cursor_obj),
                                 IF include_total
                                 THEN <<GetTotalCount(rows, additional_filters)>>
                                 ELSE <<>>)
    /\ UNCHANGED notFetch

NextFetch ==
    \E limit \in 1..MaxLimit, cursor \in FetchCursors, order \in {"asc", "desc"},
       additional_filters \in FilterChoices, include_total \in BOOLEAN :
        Fetch(PaginationParams(limit, cursor, order), additional_filters,
              include_total)

InitFetchSpec ==
    /\ InitBase
    /\ IdleExcept("page")
    /\ rows \in SUBSET TableRows
    /\ initial = rows
    /\ params = PaginationParams(1, <<>>, "desc")
    /\ next_cursor = <<>>
    /\ page = NoPage
    /\ seen = <<>>
    /\ phase = "idle"

SpecFetch == InitFetchSpec /\ [][NextFetch]_vars

(***************************************************************************)
(* SpecMgr: callers of start() and stop() of one BackgroundTaskManager.    *)
(* start() has no await and runs in one step.  stop() runs up to           *)
(* "await task", where it is suspended until the task it cancelled is      *)
(* done, and then to its end.  A periodic task ends only by cancellation:  *)
(* cleanup_cache_task loops forever, so _run_periodic_task never tests     *)
(* _running again.                                                         *)
(***************************************************************************)
\* BackgroundTaskManager.start
Start(c) ==
    /\ mgr.pc[c] = "idle"
    /\ IF mgr.running
       THEN mgr' = [mgr EXCEPT !.last = "start"]
       ELSE /\ Cardinality(Created(mgr)) < MaxTasks
            /\ \E id \in {Cardinality(Created(mgr)) + 1} :
                  mgr' = [mgr EXCEPT !.running = TRUE,
                                     !.tasks = <<id>>,
                                     !.state[id] = "alive",
                                     !.last = "start"]
    /\ UNCHANGED notMgr

\* BackgroundTaskManager.stop up to "await task", or up to its end when it
\* has nothing to await
StopBegins(c) ==
    /\ mgr.pc[c] = "idle"
    /\ IF ~mgr.running
       THEN mgr' = [mgr EXCEPT !.last = "stop"]
       ELSE IF mgr.tasks = <<>> \/ mgr.state[mgr.tasks[1]] = "cancelled"
       THEN mgr' = [mgr EXCEPT !.running = FALSE, !.tasks = <<>>, !.last = "stop"]
       ELSE mgr' = [mgr EXCEPT !.running = FALSE,
                               !.state[mgr.tasks[1]] = "cancelling",
                               !.pc[c] = "awaiting",
                               !.awaited[c] = mgr.tasks[1],
                               !.size[c] = Len(mgr.tasks),
                               !.last = "none"]
    /\ UNCHANGED notMgr

\* the cancelled task is resumed with CancelledError, which neither
\* "except Exception" catches, and is done
TaskEnds(id) ==
    /\ mgr.state[id] = "cancelling"
    /\ mgr' = [mgr EXCEPT !.state[id] = "cancelled"]
    /\ UNCHANGED notMgr

\* stop() resumes: the loop over self._tasks.items() asks for the next
\* item, which raises RuntimeError when the dict changed size meanwhile,
\* and self._tasks.clear() follows
StopResumes(c) ==
    /\ mgr.pc[c] = "awaiting"
    /\ mgr.state[mgr.awaited[c]] = "cancelled"
    /\ IF Len(mgr.tasks) # mgr.size[c]
       THEN mgr' = [mgr EXCEPT !.pc[c] = "idle", !.awaited[c] = 0, !.size[c] = 0,
                               !.last = "stop raised"]
       ELSE mgr' = [mgr EXCEPT !.pc[c] = "idle", !.awaited[c] = 0, !.size[c] = 0,
                               !.tasks = <<>>, !.last = "stop"]
    /\ UNCHANGED notMgr

NextMgr ==
    \/ \E c \in Callers : Start(c)
    \/ \E c \in Callers : StopBegins(c)
    \/ \E id \in TaskIds : TaskEnds(id)
    \/ \E c \in Callers : StopResumes(c)

SpecMgr == Init /\ [][NextMgr]_vars

(***************************************************************************)
(* Properties of the cache.                                                *)
(***************************************************************************)

\* C1: the number of entries never exceeds max_size once a set has
\* completed, whatever operations came before.
C1_SizeWithinMax == Len(cache) <= MaxSize

\* C2: a get never returns the value of an entry whose expires_at has
\* passed: it removes the entry and returns absent (None).
C2_ExpiredNeverReturned ==
    (last.op = "get" /\ last.was = "expired")
        => (last.ret = PyNone /\ ~Has(cache, last.key))

C2_Witness ==
    /\ last.op = "get" /\ last.was = "expired" /\ last.ret = PyNone
    /\ last.prior # <<>> /\ last.prior[1].value \in Values

\* The entry a get found was stored by set(k, v, ttl=T) with T > 0.
FoundWithTtl == last.op = "get" /\ last.prior # <<>>
                   /\ last.prior[1].ttl # <<>> /\ last.prior[1].ttl[1] > 0

\* C3 as stated: get(k) right after set(k, v, ttl=T), T > 0, returns v, and
\* get(k) once T has elapsed since that set returns absent.
C3_TtlAsStated ==
    /\ (last.op = "get" /\ last.was = "absent") => last.ret = PyNone
    /\ FoundWithTtl =>
         LET p == last.prior[1] IN
         /\ p.age = 0 => last.ret = p.value
         /\ p.age >= p.ttl[1] => last.ret = PyNone

\* C3 amended: get(k) returns v until T has elapsed since set(k, v, ttl=T),
\* the instant T included, and returns absent once more than T has elapsed.
C3_TtlAmended ==
    /\ (last.op = "get" /\ last.was = "absent") => last.ret = PyNone
    /\ FoundWithTtl =>
         LET p == last.prior[1] IN
         /\ p.age <= p.ttl[1] => last.ret = p.value
         /\ p.age > p.ttl[1] => last.ret = PyNone

C3_Witness ==
    /\ FoundWithTtl
    /\ last.prior[1].age > last.prior[1].ttl[1]
    /\ last.ret = PyNone

\* C4: an entry stored by set(key, value, ttl=0) never expires: while it
\* has not been deleted, cleared, overwritten or evicted, get returns its
\* value and cleanup_expired leaves it in place.
C4_ZeroTtlNeverExpires ==
    [][\A k \in DOMAIN stored :
          stored[k].ttl = <<0>> =>
             /\ Get(k) => last'.ret = stored[k].value
             /\ CleanupExpired => Has(cache', k)]_vars

\* C5: a set of a key that is not present, into a cache holding max_size
\* entries, evicts exactly one entry, one with the smallest last_accessed
\* (created_at if never accessed), and then stores the new one.
C5_EvictsLeastRecentlyUsed ==
    (last.op = "set" /\ last.key \notin last.keys
        /\ Cardinality(last.keys) = MaxSize)
        => \E k \in last.lru :
              DictKeys(cache) = (last.keys \ {k}) \cup {last.key}

\* C6: the operations of the cache exclude one another: at most one
\* caller is inside the lock; every operation returns what it returns when
\* the operations run one at a time in the order the lock was taken; and
\* whenever nobody is inside, the dict is the one that serial order leaves,
\* so that no set and no access_count increment is lost.
C6_MutualExclusion ==
    /\ Cardinality({p \in Procs : InLock(p)}) <= 1
    /\ (\E p \in Procs : InLock(p)) => locked
    /\ agree
    /\ (\A p \in Procs : ~InLock(p)) => cache = scache

\* One caller is between the read and the write of a get while the other,
\* calling get on the same key, waits for the lock.
C6_Witness ==
    \E p, q \in Procs :
        /\ pc[p] = "get_write"
        /\ pc[q] = "wait" /\ call[q].op = "get" /\ call[q].key = call[p].key

(***************************************************************************)
(* Properties of the rate limiter.                                         *)
(***************************************************************************)
NonExempt == req.ip # <<>> /\ req.path \notin {"/", "/health"}

Exempt == req.ip # <<>> /\ req.path \in {"/", "/health"}

\* C7: with requests_per_minute = N and the burst limit not binding, a
\* request of a client is admitted while fewer than N of its requests were
\* admitted in the last 60 seconds, and rejected with 429 once N were; when
\* 60 seconds have passed since the last admitted one, it is admitted.
C7_MinuteLimit ==
    (NonExempt /\ req.burst < BurstLimit) =>
        /\ req.minute < RequestsPerMinute => ~req.blocked /\ req.invoked
        /\ req.minute >= RequestsPerMinute
              => req.blocked /\ req.reply.status = 429
        /\ (req.idle # <<>> /\ req.idle[1] >= 60) => ~req.blocked

\* The N+1-th request within 60 seconds, with fewer than burst_limit in
\* the last 10 seconds, is rejected.
C7_Witness ==
    /\ NonExempt /\ req.burst < BurstLimit
    /\ req.minute = RequestsPerMinute
    /\ req.blocked /\ req.reply.status = 429

\* C8: a non-exempt request is rejected exactly when requests_per_minute
\* requests of its client were admitted in the last 60 seconds or
\* burst_limit in the last 10 seconds, these being the lengths of the
\* client's two windows after pruning; so a burst is rejected at the burst
\* limit below requests_per_minute, and admitted again 10 seconds after
\* the last admitted request.
C8_RejectedExactlyWhen ==
    NonExempt =>
        /\ req.blocked <=>
              (req.minute >= RequestsPerMinute \/ req.burst >= BurstLimit)
        /\ req.ip \in DOMAIN clients
        /\ Len(clients[req.ip].requests)
              = req.minute + (IF req.blocked THEN 0 ELSE 1)
        /\ Len(clients[req.ip].burst_requests)
              = req.burst + (IF req.blocked THEN 0 ELSE 1)
        /\ (req.idle # <<>> /\ req.idle[1] >= 10
              /\ req.minute < RequestsPerMinute) => ~req.blocked

\* A request is rejected at the burst limit, below requests_per_minute.
C8_Witness ==
    /\ NonExempt /\ req.blocked
    /\ req.burst >= BurstLimit /\ req.minute < RequestsPerMinute

\* C9: for a request the rate limiter rejects, call_next is not invoked
\* and the response has status 429 and the headers Retry-After: 60,
\* X-RateLimit-Limit and X-RateLimit-Remaining: 0.
C9_RejectionResponse ==
    req.blocked =>
        /\ ~req.invoked
        /\ req.reply.ip = req.ip /\ req.reply.path = req.path
        /\ ~req.reply.handled
        /\ req.reply.status = 429
        /\ req.reply.retry_after = <<"60">>
        /\ req.reply.limit # <<>>
        /\ req.reply.remaining = <<"0">>

\* A request is rejected while the handler is running for an earlier one.
C9_Witness ==
    /\ req.blocked /\ req.reply.status = 429
    /\ handling[<<req.ip, req.path>>] > 0

\* C10: a request on the path "/" or "/health" is passed to call_next and
\* not rejected, and clients is left as it was, whatever the client has
\* sent before.
C10_ExemptBypass ==
    Exempt => req.invoked /\ ~req.blocked /\ req.untouched

\* A health check of a client that is at requests_per_minute.
C10_Witness ==
    /\ Exempt /\ req.invoked /\ req.untouched
    /\ req.minute >= RequestsPerMinute

(***************************************************************************)
(* The cursor codec (SpecCodec).                                           *)
(***************************************************************************)
\* C13: for every valid cursor c, decode(encode(c)) equals c.
C13_RoundTrip ==
    (origin = "encoded" /\ decoded # Pending) => decoded = Ok(source[1])

\* A cursor with microseconds and an offset has been encoded and decoded.
C13_Witness ==
    /\ origin = "encoded" /\ decoded = Ok(source[1])
    /\ source[1].created_at.microsecond # 0
    /\ source[1].created_at.utc

\* C14: decoding a token that is not the encoding of a valid cursor raises
\* the validation failure "Invalid cursor format" and no other error.
C14_MalformedRaisesValidation ==
    (origin = "malformed" /\ decoded # Pending)
        => decoded = Raise("ValidationException")

\* C15: a paginated listing request with a malformed cursor token is
\* answered with a client-input error, distinguishable from not-found and
\* from a server or database error.
C15_ClientInputError ==
    (origin = "malformed" /\ api # NoApi)
        => /\ api.status_code \in 400..499
           /\ api.status_code # NotFoundError.status_code
           /\ api.error_code # DatabaseError.error_code

(***************************************************************************)
(* Cursor pagination (SpecPage).                                           *)
(***************************************************************************)
\* the items of the rows the traversal started with, in the requested order
Expected == [k \in 1..Cardinality(initial) |->
                Item(Sorted(initial, params.order = "desc")[k])] \o <<>>

Unchanged == rows = initial /\ phase \in {"more", "done", "failed"}

\* C11: over an immutable set of M items, following next_cursor from a
\* request without cursor yields each item exactly once in (timestamp, id)
\* order of the requested direction, items sharing a timestamp included,
\* every page but the last full, and ends with a page whose has_next is
\* false.
C11_FullTraversal ==
    Unchanged =>
        /\ phase # "failed"
        /\ Len(seen) <= Len(Expected)
        /\ seen = SubSeq(Expected, 1, Len(seen))
        /\ phase = "more" => page.has_next /\ Len(page.items) = params.limit
        /\ phase = "done" => seen = Expected /\ ~page.has_next

\* All five rows, two pairs of which share a timestamp, were traversed in
\* ascending order in pages of two.
C11_Witness ==
    /\ Unchanged /\ phase = "done"
    /\ initial = TableRows /\ params.limit = 2 /\ params.order = "asc"
    /\ seen = Expected

\* C12: with rows inserted between the page requests of a traversal, ahead
\* of or behind the cursor, no row is returned twice and every row present
\* at the start is returned exactly once.
C12_StableUnderInserts ==
    /\ \A i, j \in DOMAIN seen : seen[i] = seen[j] => i = j
    /\ phase # "failed"
    /\ phase = "done" => \A r \in initial : \E i \in DOMAIN seen : seen[i] = Item(r)

\* A traversal ended after one row was inserted ahead of the cursor (and
\* was returned) and one behind it (and was not).
C12_Witness ==
    /\ phase = "done"
    /\ \E a, b \in rows \ initial :
          /\ \E i \in DOMAIN seen : seen[i] = Item(a)
          /\ \A i \in DOMAIN seen : seen[i] # Item(b)
    /\ \A r \in initial : \E i \in DOMAIN seen : seen[i] = Item(r)

(***************************************************************************)
(* The memoization wrapper (SpecMemo).                                     *)
(***************************************************************************)
\* C16: a call on a miss invokes the original function once and stores its
\* result; a call that finds the entry of an earlier call with equal
\* arguments, not expired, returns the stored result without invoking the
\* original function, whatever value the function returned.
C16_StoredResultServed ==
    mlast.op = "call" =>
        IF mlast.was = "fresh"
        THEN ~mlast.invoked /\ mlast.ret = mlast.held
        ELSE mlast.invoked /\ mlast.ret = memo.result[mlast.arg] /\ mlast.present

\* C17: after cache_delete(x) the entry the wrapper stored for x is absent
\* and the next call with x invokes the original function again, for every
\* key_prefix, the empty one included; entries of other arguments are
\* unchanged.
C17_CacheDeleteRemoves ==
    /\ mlast.op = "delete" => ~mlast.present /\ mlast.same
    /\ mlast.op = "call" /\ mlast.deleted => mlast.invoked

(***************************************************************************)
(* Invalidation by the facade (SpecInv).                                   *)
(***************************************************************************)
\* the record key and the list prefix of the last invalidation
InvRecordKey ==
    IF inv.entity = "harvest_log" THEN HarvestLogKey(inv.id) ELSE PlantEventKey(inv.id)

InvListPrefix ==
    IF inv.entity = "harvest_log" THEN HarvestLogsListPrefix ELSE PlantEventsListPrefix

\* the keys of the dict before the invalidation that it is to remove
InvTargets ==
    {k \in DictKeys(inv.before) : k = InvRecordKey \/ StartsWith(k, InvListPrefix)}

\* C18: after invalidate_harvest_log(id) or invalidate_plant_event(id) the
\* key "<entity>:<id>" is absent, every key under the entity's list prefix
\* present when the call began is absent, and the entries of all other keys
\* (other records, stats, the other entity) are as they were.
C18_InvalidationFrame ==
    inv.entity # "none" =>
        /\ ~Has(cache, InvRecordKey)
        /\ \A k \in InvTargets : ~Has(cache, k)
        /\ cache = SelectSeq(inv.before, LAMBDA e : e.key \notin InvTargets)

\* invalidate_harvest_log("1") on a dict that held all the facade's keys:
\* the record and both harvest lists are gone, the six other entries stay.
C18_Witness ==
    /\ inv.entity = "harvest_log" /\ inv.id = <<"1">>
    /\ Len(inv.before) = Len(FacadeKeys)
    /\ Cardinality(InvTargets) = 3
    /\ Len(cache) = Len(FacadeKeys) - 3
    /\ Has(cache, HarvestLogKey(<<"2">>)) /\ Has(cache, HarvestStatsKey)
    /\ Has(cache, PlantEventsListPrefix \o CacheKey(1))

(***************************************************************************)
(* The cleanup task (SpecTask).                                            *)
(***************************************************************************)
\* the exception is caught, the task sleeps 60 s instead of 300 s before it
\* purges again, and it never ends because of an exception
CaughtAndRetried ==
    /\ task.state # "crashed"
    /\ task.outcome = "raised" /\ task.state = "sleeping"
          => task.wake = task.ran_at + ErrorSleep
    /\ task.outcome = "ok" /\ task.state = "sleeping"
          => task.wake = task.ran_at + NormalSleep
    /\ task.prev = "raised" => task.gap = ErrorSleep
    /\ task.prev = "ok" => task.gap = NormalSleep

\* C19 as stated: a purge that raises is caught, retried after 60 s instead
\* of 300 s, the task keeps running, and the cache contents are left as
\* they were.
C19_AsStated ==
    /\ CaughtAndRetried
    /\ task.outcome = "raised" => cache = task.before

\* C19, amended: a purge that raises is caught, retried after 60 s instead
\* of 300 s, the task keeps running, and the cache has lost at most entries
\* that had expired: every other entry is as it was, in its place.
C19_Amended ==
    /\ CaughtAndRetried
    /\ task.outcome = "raised" =>
          /\ cache = SelectSeq(task.before, LAMBDA e : \E i \in DOMAIN cache : cache[i] = e)
          /\ \A i \in DOMAIN task.before :
                ~IsExpired(task.before[i], task.ran_at)
                    => \E k \in DOMAIN cache : cache[k] = task.before[i]

\* A purge raised after deleting one of two expired entries, 60 s after a
\* purge that had raised too.
C19_Witness ==
    /\ task.outcome = "raised" /\ task.prev = "raised" /\ task.gap = ErrorSleep
    /\ task.state = "sleeping" /\ task.wake = now + ErrorSleep
    /\ Len(task.before) = Len(cache) + 1
    /\ \E i \in DOMAIN cache : IsExpired(cache[i], task.ran_at)

(***************************************************************************)
(* Progress under fair scheduling (SpecLive).                              *)
(***************************************************************************)
\* some coroutine has a step to take
Busy == \E t \in Coroutines : lpc[t] # "idle"

\* C20: under fair scheduling every invoked cache operation, facade
\* invalidation and rate-limiter check gets each lock it waits for, runs
\* to its end and leaves the lock free; no reachable state is a deadlock.
C20_NoBlocking ==
    /\ [](Busy => ENABLED (\E t \in Coroutines : Run(t)))
    /\ \A t \in Coroutines :
          /\ (lpc[t] = "wait") ~> (lpc[t] = "in")
          /\ (lpc[t] # "idle") ~> (lpc[t] = "idle")
    /\ []((\A t \in Coroutines : lpc[t] = "idle")
             => \A l \in Locks : holder[l] = <<>> /\ queue[l] = <<>>)

\* An invalidation has released the lock after its scan and waits for it
\* again, held by another coroutine, to delete the list key it found.
C20_Witness ==
    \E t, w \in Coroutines :
        /\ job[t].call = "invalidate" /\ lpc[t] = "wait"
        /\ Head(job[t].steps).step = "delete" /\ Head(job[t].steps).key \in ListKeys
        /\ queue["cache"] = <<t>>
        /\ holder["cache"] = <<w>>

(***************************************************************************)
(* Properties of delete, clear and set on a present key (SpecLru).         *)
(***************************************************************************)

\* C21: delete(key) returns true exactly when an entry for key was in the
\* dict, and the entry is gone afterwards; while key has no entry get(key)
\* returns absent and only a set of key brings an entry back; clear leaves
\* no entry, whatever the expiry of the entries it found.
C21_DeleteAndClear ==
    [][/\ \A k \in Keys :
            /\ Delete(k) => (last'.ok = Has(cache, k) /\ ~Has(cache', k))
            /\ ~Has(cache, k) =>
                  /\ Get(k) => (last'.ret = PyNone /\ ~Has(cache', k))
                  /\ Has(cache', k) => (last'.op = "set" /\ last'.key = k)
       /\ Clear => Len(cache') = 0]_vars

\* A delete found an entry past its expiry next to another entry, returned
\* true and left the dict without it.
C21_Witness ==
    /\ last.op = "delete" /\ last.ok /\ last.was = "expired"
    /\ Cardinality(last.keys) = 2
    /\ ~Has(cache, last.key) /\ Len(cache) = 1

\* C25: a set of a key that has an entry evicts nothing, even from a full
\* cache: the key's entry is replaced by a fresh one (created now, expiry
\* counted from now, access_count 0, last_accessed unset) and every other
\* entry is left as it was.
C25_SetPresentKeyFrame ==
    [][\A k \in Keys, v \in LruValues, ttl \in LruTtlArgs :
          (Set(k, v, ttl) /\ Has(cache, k)) =>
             /\ DictKeys(cache') = DictKeys(cache)
             /\ Len(cache') = Len(cache)
             /\ \A j \in Keys \ {k} : DictGet(cache', j) = DictGet(cache, j)
             /\ LET e == Lookup(cache', k) IN
                 /\ e.value = v
                 /\ e.created_at = now
                 /\ e.expires_at = <<now + ttl[1]>>
                 /\ e.access_count = 0
                 /\ e.last_accessed = <<>>]_vars

\* A set replaced, in a cache holding max_size entries, an entry stored
\* earlier, and the cache still holds max_size entries.
C25_Witness ==
    /\ last.op = "set" /\ last.was # "absent"
    /\ Cardinality(last.keys) = MaxSize
    /\ last.prior # <<>> /\ last.prior[1].age > 0
    /\ DictKeys(cache) = last.keys
    /\ Lookup(cache, last.key).created_at = now

(***************************************************************************)
(* Properties of the rate limiter under overlapping requests of two        *)
(* clients (SpecClients) and on the fine clock (SpecRl).                   *)
(***************************************************************************)

\* C26: when the handler of an admitted request returns, the response
\* gets X-RateLimit-Limit = requests_per_minute and X-RateLimit-Remaining
\* = requests_per_minute minus the length the client's minute window has
\* at that moment, which is never below 0.
C26_AdmittedHeaders ==
    [][\A ip \in ClientIps, path \in Paths \ {"/", "/health"},
          status \in HandlerStatuses :
          HandlerReturn(ip, path, status) =>
             /\ ip \in DOMAIN clients
             /\ RequestsPerMinute - Len(clients[ip].requests) >= 0
             /\ resp'.handled /\ resp'.status = status
             /\ resp'.limit = <<Str(RequestsPerMinute)>>
             /\ resp'.remaining =
                   <<Str(RequestsPerMinute - Len(clients[ip].requests))>>]_vars

\* A handler returned for a client of which a second request, admitted as
\* well, is still inside call_next: the header counts both.
C26_Witness ==
    /\ resp.handled /\ resp.ip = IpA /\ resp.path = "/api/harvest-logs"
    /\ handling[<<IpA, "/api/harvest-logs">>] > 0
    /\ now = 0
    /\ resp.remaining = <<Str(RequestsPerMinute - 2)>>

\* C27: in every reachable state each client's minute window holds at most
\* requests_per_minute timestamps and its burst window at most burst_limit,
\* and the burst window is the tail of the minute window; hence at most
\* requests_per_minute requests of a client were admitted in the last 60
\* seconds and at most burst_limit in the last 10 seconds (an interval of
\* 60 or 10 seconds taken without its older end).
C27_WindowsBounded ==
    /\ \A ip \in DOMAIN clients :
          LET requests == clients[ip].requests
              burst == clients[ip].burst_requests
          IN  /\ Len(requests) <= RequestsPerMinute
              /\ Len(burst) <= BurstLimit
              /\ \A i \in DOMAIN burst : \E j \in DOMAIN requests :
                    requests[j] = burst[i]
              /\ Len(burst) <= Len(requests)
              /\ burst = SubSeq(requests, Len(requests) - Len(burst) + 1,
                                Len(requests))
    /\ \A ip \in ClientIps :
          /\ Younger(admitted[ip].recent, now, MinuteSeconds) <= RequestsPerMinute
          /\ Younger(admitted[ip].recent, now, BurstSeconds) <= BurstLimit

\* A client is at both limits while as many requests as may overlap are
\* inside call_next and the other client has a window too.
C27_Witness ==
    /\ Inflight = MaxConcurrent
    /\ DOMAIN clients = ClientIps
    /\ Len(clients[IpA].requests) = RequestsPerMinute
    /\ Len(clients[IpA].burst_requests) = BurstLimit
    /\ Len(clients[IpB].requests) > 0

\* C28: a rejected request is not recorded: the rejection leaves each of
\* the client's windows as it was less the timestamps that have aged out,
\* and counts as no admission; so a request is rejected exactly when
\* requests_per_minute admitted requests are less than 60 seconds old or
\* burst_limit admitted requests less than 10 seconds old, however many
\* requests were rejected in between.
C28_RejectionNotRecorded ==
    /\ [][\A r \in Requests :
            (Dispatch(r) /\ req'.blocked) =>
               LET ip == GetClientIp(r) IN
               /\ ip \in DOMAIN clients
               /\ DOMAIN clients' = DOMAIN clients
               /\ clients'[ip].requests =
                     SelectSeq(clients[ip].requests,
                               LAMBDA x : now - x < MinuteSeconds)
               /\ clients'[ip].burst_requests =
                     SelectSeq(clients[ip].burst_requests,
                               LAMBDA x : now - x < BurstSeconds)
               /\ admitted' = admitted]_vars
    /\ [](NonExempt =>
            (req.blocked <=>
                \/ Younger(admitted[req.ip].recent, now, MinuteSeconds)
                      - (IF req.blocked THEN 0 ELSE 1) >= RequestsPerMinute
                \/ Younger(admitted[req.ip].recent, now, BurstSeconds)
                      - (IF req.blocked THEN 0 ELSE 1) >= BurstLimit))

\* A rejection that pruned a window and appended nothing.
C28_Witness ==
    /\ NonExempt /\ req.blocked /\ ~req.untouched
    /\ Len(clients[req.ip].burst_requests) < BurstLimit
    /\ Len(clients[req.ip].requests) = RequestsPerMinute

\* the decision as a function of the time and the client's own admitted
\* requests
Decision(a, t) ==
    \/ Younger(a.recent, t, MinuteSeconds) >= RequestsPerMinute
    \/ Younger(a.recent, t, BurstSeconds) >= BurstLimit

\* the RateLimitState of a client, if it has one
StateOf(cl, ip) == IF ip \in DOMAIN cl THEN <<cl[ip]>> ELSE <<>>

\* C29: a request of one client identity leaves the RateLimitState of
\* every other identity as it was, and its own admission or rejection is
\* determined by the time and the admitted requests of its own identity;
\* a returning handler changes no state at all.
C29_ClientsIsolated ==
    [][/\ \A r \in ClientRequests :
            DispatchUpTo(r, MaxConcurrent) =>
               LET ip == GetClientIp(r) IN
               /\ \A other \in (DOMAIN clients \cup DOMAIN clients'
                                   \cup ClientIps) \ {ip} :
                     StateOf(clients', other) = StateOf(clients, other)
               /\ \A other \in ClientIps \ {ip} :
                     admitted'[other] = admitted[other]
               /\ req'.ip = ip
               /\ ~IsExempt(r.path) =>
                     (req'.blocked <=> Decision(admitted[ip], now))
               /\ IsExempt(r.path) => ~req'.blocked /\ clients' = clients
       /\ \A ip \in ClientIps, path \in Paths, status \in HandlerStatuses :
            HandlerReturn(ip, path, status) => clients' = clients]_vars

\* A request of one client is admitted in the instant in which the other
\* client, at its limit, was rejected.
C29_Witness ==
    /\ req.ip = IpB /\ NonExempt /\ ~req.blocked
    /\ resp.status = 429 /\ resp.ip = IpA
    /\ Len(clients[IpA].requests) = RequestsPerMinute

(***************************************************************************)
(* Result assembly and the total count (SpecFetch).                        *)
(***************************************************************************)

RowOf(item) == CHOOSE r \in rows : Item(r) = item

\* the token decodes to the (created_at, id) of the item's row
EncodesItem(cursor, item) ==
    /\ \E r \in rows : Item(r) = item
    /\ Decode(cursor) = Ok(PaginationCursor(RowOf(item).created_at, RowOf(item).id))

\* C23: the query returns at most limit + 1 rows; has_next is true exactly
\* when more than limit rows were returned; the page is the first limit
\* rows in the order returned; next_cursor is present exactly when has_next
\* is true and then encodes the (created_at, id) of the last item of the
\* page.
C23_ResultAssembly ==
    fetch.made =>
        /\ Len(fetch.data) <= fetch.params.limit + 1
        /\ fetch.page.has_next <=> Len(fetch.data) > fetch.params.limit
        /\ fetch.page.items =
              SubSeq(fetch.data, 1,
                     IF Len(fetch.data) > fetch.params.limit
                     THEN fetch.params.limit ELSE Len(fetch.data))
        /\ fetch.page.next_cursor # <<>> <=> fetch.page.has_next
        /\ fetch.page.next_cursor # <<>> =>
              /\ fetch.page.items # <<>>
              /\ EncodesItem(fetch.page.next_cursor[1],
                             fetch.page.items[Len(fetch.page.items)])

\* At a cursor, limit + 1 rows came back: the page has limit items and a
\* next_cursor.
C23_Witness ==
    /\ fetch.made /\ fetch.params.cursor # <<>> /\ fetch.params.limit = MaxLimit
    /\ Len(fetch.data) = MaxLimit + 1
    /\ Len(fetch.page.items) = MaxLimit
    /\ fetch.page.has_next /\ fetch.page.next_cursor # <<>>

\* the caller supplied a cursor: the parameter is neither None nor empty
CursorSupplied ==
    fetch.params.cursor # <<>> /\ fetch.params.cursor[1] # <<>>

\* C24 as stated: has_previous is true exactly when the caller supplied a
\* cursor, and whenever it is true previous_cursor is present and encodes
\* the first item of the page; without a cursor previous_cursor is absent.
C24_AsStated ==
    fetch.made =>
        /\ fetch.page.has_previous <=> CursorSupplied
        /\ fetch.page.has_previous =>
              /\ fetch.page.previous_cursor # <<>>
              /\ fetch.page.items # <<>>
              /\ EncodesItem(fetch.page.previous_cursor[1], fetch.page.items[1])
        /\ ~CursorSupplied => fetch.page.previous_cursor = <<>>

\* C24 amended: has_previous is true exactly when the caller supplied a
\* cursor; when it is true and the page has an item, previous_cursor is
\* present and encodes the first item of the page; without a cursor, and
\* when the page is empty, previous_cursor is absent.
C24_Amended ==
    fetch.made =>
        /\ fetch.page.has_previous <=> CursorSupplied
        /\ (fetch.page.has_previous /\ fetch.page.items # <<>>) =>
              /\ fetch.page.previous_cursor # <<>>
              /\ EncodesItem(fetch.page.previous_cursor[1], fetch.page.items[1])
        /\ (~CursorSupplied \/ fetch.page.items = <<>>) =>
              fetch.page.previous_cursor = <<>>

\* A request at the cursor of the last row of a table that has rows: the
\* page is empty, has_previous is true and there is no previous_cursor.
C24_Witness ==
    /\ fetch.made /\ CursorSupplied /\ rows # {}
    /\ fetch.page.items = <<>>
    /\ fetch.page.has_previous /\ fetch.page.previous_cursor = <<>>

(***************************************************************************)
(* The background task manager (SpecMgr).                                  *)
(***************************************************************************)

\* C30: whatever the order and overlap of the calls of start() and stop(),
\* at most one cache-cleanup task is alive (created and not cancelled) at
\* a time, and once a stop() has returned, no other stop() being under way,
\* every task the manager created has been cancelled and the task table is
\* empty.
C30_OneTaskAndStopCancelsAll ==
    /\ Cardinality({i \in TaskIds : mgr.state[i] = "alive"}) <= 1
    /\ (mgr.last = "stop" /\ \A c \in Callers : mgr.pc[c] = "idle") =>
          /\ mgr.tasks = <<>>
          /\ \A i \in Created(mgr) : mgr.state[i] \in {"cancelling", "cancelled"}

====
